---------------------------- MODULE Spec2Model ----------------------------
(***************************************************************************)
(* Model of the game board of nmayorov/minesweeper                         *)
(* (src/minesweeper/board.py, class Board).                                *)
(*                                                                         *)
(* The board is a record holding the fields of the Board object.  Every    *)
(* method of Board is an operator from board records to board records,     *)
(* translated statement by statement; the actions apply the public entry   *)
(* points (the constructor, on_mouse_down, on_mouse_up, reset) to the      *)
(* current board.  random.sample is a nondeterministic choice of the       *)
(* sample.  Cells are pairs <<i, j>> with 0-based indices as in the code.  *)
(*                                                                         *)
(* The last sections model the game that owns the board                    *)
(* (src/minesweeper/game.py, class Game, with the widgets of gui.py it     *)
(* dispatches to) and its leaderboard (src/minesweeper/leaderboard.py), in *)
(* the same way: records, operators for the methods, and one action per    *)
(* iteration of the main loop or per handler.                              *)
(***************************************************************************)
EXTENDS Integers, Sequences, FiniteSets, TLC

VARIABLES
    n_rows, n_cols, n_mines,   \* board parameters
    n_mines_left,              \* the displayed "mines left" counter
    is_mine,                   \* cell -> BOOLEAN
    mine_count,                \* None before placement, then cell -> 0..8
    tile_status,               \* cell -> TILE_CLOSED / TILE_OPENED / TILE_CHECKED
    losing_indices,            \* None or the detonated cell
    start_time,                \* None or the clock reading of the first open
    _time,                     \* seconds of play as last computed by time
    tiles_to_open,             \* counter that triggers victory at 0
    game_status,               \* "before_start", "running", "victory", "game_over"
    delivered,                 \* statuses passed to the callback by the last command
    raised,                    \* exception raised by the last command, or "none"
    ticks,                     \* pygame.time.get_ticks(): milliseconds since start
    game,                      \* None, or the Game or Leaderboard that is run
    last                       \* history: the branch the last command took

vars == <<n_rows, n_cols, n_mines, n_mines_left, is_mine, mine_count,
          tile_status, losing_indices, start_time, _time, tiles_to_open,
          game_status, delivered, raised, ticks, game, last>>

---------------------------------------------------------------------------
(* Bounds of the model.                                                    *)

\* Boards of the game-play specification: at most MaxRows x MaxCols with at
\* most MaxCells cells, any mine count the board accepts.
MaxRows == 2
MaxCols == 3
MaxCells == 6

\* Boards of the placement specification: larger, so that the sparse regime
\* n_mines <= n_rows * n_cols - 9 occurs with mines on the board.
GenRows == 3
GenCols == 4
GenMines == 3

\* Boards of the clock specification: at most TimeRows x TimeCols with at
\* most TimeCells cells, any mine count the board accepts.  The clock
\* advances MaxTicks times by TickStep milliseconds.
TimeRows == 2
TimeCols == 2
TimeCells == 4
MaxTicks == 4
TickStep == 500

---------------------------------------------------------------------------
(* Program constants.                                                      *)

LEFT_BUTTON == 1
RIGHT_BUTTON == 3

TILE_CLOSED == 0
TILE_OPENED == 1
TILE_CHECKED == 2

\* None as the value of a field that otherwise holds an array or a pair.
None == <<>>

\* None as the value of an optional integer: an index that
\* _get_tile_indices_at_mouse found outside the board, an omitted argument
\* of reset, start_time before the first open.
NoneInt == -1

\* The buttons of the mouse events: for each handler one of them is the
\* button it acts on and the other one a button it ignores.
Buttons == {LEFT_BUTTON, RIGHT_BUTTON}

---------------------------------------------------------------------------
(* Helpers.                                                                *)

Abs(x) == IF x < 0 THEN -x ELSE x

Cells(r, c) == (0 .. r - 1) \X (0 .. c - 1)

CellsOf(b) == Cells(b.n_rows, b.n_cols)

Range(s) == {s[k] : k \in 1 .. Len(s)}

\* Row-major enumeration, the order of the nested range() loops.
RowMajor(r, c) == [k \in 1 .. r * c |-> <<(k - 1) \div c, (k - 1) % c>>]

\* Mutant of get_neighbors: the row above is tested with i > 1.
get_neighbors_skip_first_row(b, i, j) ==
    LET up    == IF i > 1
                 THEN <<<<i - 1, j>>>>
                      \o (IF j > 0 THEN <<<<i - 1, j - 1>>>> ELSE <<>>)
                      \o (IF j < b.n_cols - 1 THEN <<<<i - 1, j + 1>>>> ELSE <<>>)
                 ELSE <<>>
        left  == IF j > 0 THEN <<<<i, j - 1>>>> ELSE <<>>
        right == IF j < b.n_cols - 1 THEN <<<<i, j + 1>>>> ELSE <<>>
        down  == IF i < b.n_rows - 1
                 THEN <<<<i + 1, j>>>>
                      \o (IF j > 0 THEN <<<<i + 1, j - 1>>>> ELSE <<>>)
                      \o (IF j < b.n_cols - 1 THEN <<<<i + 1, j + 1>>>> ELSE <<>>)
                 ELSE <<>>
    IN  up \o left \o right \o down

\* Mutant of get_neighbors: the neighbours of a row are appended from left
\* to right.
get_neighbors_row_major(b, i, j) ==
    LET up    == IF i > 0
                 THEN (IF j > 0 THEN <<<<i - 1, j - 1>>>> ELSE <<>>)
                      \o <<<<i - 1, j>>>>
                      \o (IF j < b.n_cols - 1 THEN <<<<i - 1, j + 1>>>> ELSE <<>>)
                 ELSE <<>>
        left  == IF j > 0 THEN <<<<i, j - 1>>>> ELSE <<>>
        right == IF j < b.n_cols - 1 THEN <<<<i, j + 1>>>> ELSE <<>>
        down  == IF i < b.n_rows - 1
                 THEN (IF j > 0 THEN <<<<i + 1, j - 1>>>> ELSE <<>>)
                      \o <<<<i + 1, j>>>>
                      \o (IF j < b.n_cols - 1 THEN <<<<i + 1, j + 1>>>> ELSE <<>>)
                 ELSE <<>>
    IN  up \o left \o right \o down

\* Board.get_neighbors: the neighbours of (i, j) in the order the code
\* appends them.
get_neighbors(b, i, j) ==
    LET up    == IF i > 0
                 THEN <<<<i - 1, j>>>>
                      \o (IF j > 0 THEN <<<<i - 1, j - 1>>>> ELSE <<>>)
                      \o (IF j < b.n_cols - 1 THEN <<<<i - 1, j + 1>>>> ELSE <<>>)
                 ELSE <<>>
        left  == IF j > 0 THEN <<<<i, j - 1>>>> ELSE <<>>
        right == IF j < b.n_cols - 1 THEN <<<<i, j + 1>>>> ELSE <<>>
        down  == IF i < b.n_rows - 1
                 THEN <<<<i + 1, j>>>>
                      \o (IF j > 0 THEN <<<<i + 1, j - 1>>>> ELSE <<>>)
                      \o (IF j < b.n_cols - 1 THEN <<<<i + 1, j + 1>>>> ELSE <<>>)
                 ELSE <<>>
    IN  up \o left \o right \o down

\* Board._change_game_status: set the status and call the callback.
change_game_status(b, new_status) ==
    [b EXCEPT !.game_status = new_status,
              !.delivered = Append(@, new_status)]

---------------------------------------------------------------------------
(* Construction and reset.                                                 *)

\* Board.__init__
NewBoard(r, c, m) ==
    [n_rows         |-> r,
     n_cols         |-> c,
     n_mines        |-> m,
     n_mines_left   |-> m,
     is_mine        |-> [x \in Cells(r, c) |-> FALSE],
     mine_count     |-> None,
     tile_status    |-> [x \in Cells(r, c) |-> TILE_CLOSED],
     losing_indices |-> None,
     start_time     |-> NoneInt,
     tiles_to_open  |-> r * c - m,
     _time          |-> 0,
     game_status    |-> "before_start",
     delivered      |-> <<>>,
     raised         |-> "none"]

\* Mutant of reset: on a board that keeps its dimensions the mines stay
\* where they are (is_mine is not cleared).
reset_keeps_mines(b, r, c, m) ==
    LET nm == IF m # NoneInt THEN m ELSE b.n_mines
        resize == r # NoneInt \/ c # NoneInt
        nr == IF resize /\ r # NoneInt THEN r ELSE b.n_rows
        nc == IF resize /\ c # NoneInt THEN c ELSE b.n_cols
        b1 == [b EXCEPT !.n_mines = nm,
                        !.n_rows = nr,
                        !.n_cols = nc,
                        !.n_mines_left = nm,
                        !.is_mine = IF resize
                                    THEN [x \in Cells(nr, nc) |-> FALSE]
                                    ELSE @,
                        !.mine_count = None,
                        !.tile_status = [x \in Cells(nr, nc) |-> TILE_CLOSED],
                        !.losing_indices = None,
                        !.start_time = NoneInt,
                        !.tiles_to_open = nr * nc - nm,
                        !._time = 0]
    IN  change_game_status(b1, "before_start")

\* Mutant of reset: n_mines_left keeps its value.
reset_keeps_mines_left(b, r, c, m) ==
    LET nm == IF m # NoneInt THEN m ELSE b.n_mines
        resize == r # NoneInt \/ c # NoneInt
        nr == IF resize /\ r # NoneInt THEN r ELSE b.n_rows
        nc == IF resize /\ c # NoneInt THEN c ELSE b.n_cols
        b1 == [b EXCEPT !.n_mines = nm,
                        !.n_rows = nr,
                        !.n_cols = nc,
                        !.is_mine = [x \in Cells(nr, nc) |-> FALSE],
                        !.mine_count = None,
                        !.tile_status = [x \in Cells(nr, nc) |-> TILE_CLOSED],
                        !.losing_indices = None,
                        !.start_time = NoneInt,
                        !.tiles_to_open = nr * nc - nm,
                        !._time = 0]
    IN  change_game_status(b1, "before_start")

\* Mutant of reset: the clock fields start_time and _time keep their values.
reset_keeps_clock(b, r, c, m) ==
    LET nm == IF m # NoneInt THEN m ELSE b.n_mines
        resize == r # NoneInt \/ c # NoneInt
        nr == IF resize /\ r # NoneInt THEN r ELSE b.n_rows
        nc == IF resize /\ c # NoneInt THEN c ELSE b.n_cols
        b1 == [b EXCEPT !.n_mines = nm,
                        !.n_rows = nr,
                        !.n_cols = nc,
                        !.n_mines_left = nm,
                        !.is_mine = [x \in Cells(nr, nc) |-> FALSE],
                        !.mine_count = None,
                        !.tile_status = [x \in Cells(nr, nc) |-> TILE_CLOSED],
                        !.losing_indices = None,
                        !.tiles_to_open = nr * nc - nm]
    IN  change_game_status(b1, "before_start")

\* Mutant of reset: on a board that keeps its dimensions the tiles keep
\* their status (tile_status is not filled with TILE_CLOSED).
reset_keeps_tiles(b, r, c, m) ==
    LET nm == IF m # NoneInt THEN m ELSE b.n_mines
        resize == r # NoneInt \/ c # NoneInt
        nr == IF resize /\ r # NoneInt THEN r ELSE b.n_rows
        nc == IF resize /\ c # NoneInt THEN c ELSE b.n_cols
        b1 == [b EXCEPT !.n_mines = nm,
                        !.n_rows = nr,
                        !.n_cols = nc,
                        !.n_mines_left = nm,
                        !.is_mine = [x \in Cells(nr, nc) |-> FALSE],
                        !.mine_count = None,
                        !.tile_status = IF resize
                                        THEN [x \in Cells(nr, nc) |-> TILE_CLOSED]
                                        ELSE @,
                        !.losing_indices = None,
                        !.start_time = NoneInt,
                        !.tiles_to_open = nr * nc - nm,
                        !._time = 0]
    IN  change_game_status(b1, "before_start")

\* Board.reset: every argument is optional (None keeps the current value).
reset(b, r, c, m) ==
    LET nm == IF m # NoneInt THEN m ELSE b.n_mines
        resize == r # NoneInt \/ c # NoneInt
        nr == IF resize /\ r # NoneInt THEN r ELSE b.n_rows
        nc == IF resize /\ c # NoneInt THEN c ELSE b.n_cols
        b1 == [b EXCEPT !.n_mines = nm,
                        !.n_rows = nr,
                        !.n_cols = nc,
                        !.n_mines_left = nm,
                        !.is_mine = [x \in Cells(nr, nc) |-> FALSE],
                        !.mine_count = None,
                        !.tile_status = [x \in Cells(nr, nc) |-> TILE_CLOSED],
                        !.losing_indices = None,
                        !.start_time = NoneInt,
                        !.tiles_to_open = nr * nc - nm,
                        !._time = 0]
    IN  change_game_status(b1, "before_start")

\* Mutant of time: the seconds are recomputed whenever the game has a start
\* time, whatever its status.
time_any_status(b, now) ==
    IF b.start_time # NoneInt
    THEN [b EXCEPT !._time = (now - b.start_time) \div 1000]
    ELSE b

\* The property Board.time read when the clock shows now: the seconds of
\* play are recomputed while the game is running and returned.
time(b, now) ==
    IF b.game_status = "running" /\ b.start_time # NoneInt
    THEN [b EXCEPT !._time = (now - b.start_time) \div 1000]
    ELSE b

---------------------------------------------------------------------------
(* Mine placement.                                                         *)

\* The subsets of S with exactly k elements.
RECURSIVE kSubsets(_, _)
kSubsets(S, k) ==
    IF k = 0 THEN {{}}
    ELSE IF S = {} THEN {}
    ELSE LET x == CHOOSE y \in S : TRUE
         IN  kSubsets(S \ {x}, k) \cup {T \cup {x} : T \in kSubsets(S \ {x}, k - 1)}

\* Mutant of position_allowed: only the clicked tile is kept free, whatever
\* the number of mines.
position_allowed_but_click(b, i, j, i_click, j_click) ==
    \/ i # i_click \/ j # j_click
    \/ b.n_mines = b.n_rows * b.n_cols

\* The any((...)) test of Board._put_mines: may (i, j) receive a mine when
\* the first click is at (i_click, j_click)?
position_allowed(b, i, j, i_click, j_click) ==
    LET n_tiles == b.n_rows * b.n_cols
    IN  \/ Abs(i - i_click) > 1 \/ Abs(j - j_click) > 1
        \/ b.n_mines > n_tiles - 9 /\ (i # i_click \/ j # j_click)
        \/ b.n_mines = b.n_rows * b.n_cols

\* The list allowed_positions built by Board._put_mines.
allowed_positions(b, i_click, j_click) ==
    SelectSeq(RowMajor(b.n_rows, b.n_cols),
              LAMBDA p : position_allowed(b, p[1], p[2], i_click, j_click))

\* Mutant of random_sample: n_mines positions are drawn with replacement,
\* so that the sample may hold fewer distinct positions.
random_sample_with_replacement(b, i_click, j_click) ==
    UNION {kSubsets(Range(allowed_positions(b, i_click, j_click)), k) :
              k \in (IF b.n_mines = 0 THEN {0} ELSE 1 .. b.n_mines)}

\* The possible results of random.sample(allowed_positions, n_mines), as
\* sets (the order of the sample does not influence the board).
random_sample(b, i_click, j_click) ==
    kSubsets(Range(allowed_positions(b, i_click, j_click)), b.n_mines)

\* The loop "for i, j in selected_positions: mine_count.flat[ind] += 1".
RECURSIVE count_mines(_, _, _)
count_mines(b, counts, selected) ==
    IF selected = {} THEN counts
    ELSE LET p == CHOOSE q \in selected : TRUE
             ind == Range(get_neighbors(b, p[1], p[2]))
         IN  count_mines(b,
                         [x \in DOMAIN counts |->
                             IF x \in ind THEN counts[x] + 1 ELSE counts[x]],
                         selected \ {p})

\* Board._put_mines with the sample drawn being selected_positions.
\* random.sample raises ValueError when the sample is larger than the
\* population; numpy.asarray of an empty sample is one-dimensional, so that
\* selected_positions[:, 0] raises IndexError when n_mines is 0.
put_mines(b, i_click, j_click, selected_positions) ==
    IF b.n_mines > Len(allowed_positions(b, i_click, j_click))
    THEN [b EXCEPT !.raised = "ValueError"]
    ELSE IF b.n_mines = 0
    THEN [b EXCEPT !.raised = "IndexError"]
    ELSE [b EXCEPT
            !.is_mine = [x \in CellsOf(b) |->
                            b.is_mine[x] \/ x \in selected_positions],
            !.mine_count = count_mines(b, [x \in CellsOf(b) |-> 0],
                                       selected_positions)]

---------------------------------------------------------------------------
(* Opening and flagging.                                                   *)

\* Mutant of open_neighbors: a flagged neighbour is opened like a closed
\* one.
RECURSIVE open_neighbors_through_flags(_, _)
open_neighbors_through_flags(w, neighbors) ==
    IF neighbors = <<>> THEN w
    ELSE LET n == Head(neighbors)
         IN  IF w.b.tile_status[n] # TILE_OPENED
             THEN open_neighbors_through_flags(
                      [b |-> [w.b EXCEPT !.tile_status[n] = TILE_OPENED,
                                         !.tiles_to_open = @ - 1],
                       queue |-> Append(w.queue, n)],
                      Tail(neighbors))
             ELSE open_neighbors_through_flags(w, Tail(neighbors))

\* Mutant of open_neighbors: the loop ends at the first neighbour that is
\* not closed (break in place of continue).
RECURSIVE open_neighbors_until_not_closed(_, _)
open_neighbors_until_not_closed(w, neighbors) ==
    IF neighbors = <<>> THEN w
    ELSE LET n == Head(neighbors)
         IN  IF w.b.tile_status[n] = TILE_CLOSED
             THEN open_neighbors_until_not_closed(
                      [b |-> [w.b EXCEPT !.tile_status[n] = TILE_OPENED,
                                         !.tiles_to_open = @ - 1],
                       queue |-> Append(w.queue, n)],
                      Tail(neighbors))
             ELSE w

\* Mutant of open_neighbors: a closed neighbour is opened and counted once
\* but appended to the queue twice.
RECURSIVE open_neighbors_enqueue_twice(_, _)
open_neighbors_enqueue_twice(w, neighbors) ==
    IF neighbors = <<>> THEN w
    ELSE LET n == Head(neighbors)
         IN  IF w.b.tile_status[n] = TILE_CLOSED
             THEN open_neighbors_enqueue_twice(
                      [b |-> [w.b EXCEPT !.tile_status[n] = TILE_OPENED,
                                         !.tiles_to_open = @ - 1],
                       queue |-> Append(Append(w.queue, n), n)],
                      Tail(neighbors))
             ELSE open_neighbors_enqueue_twice(w, Tail(neighbors))

\* Mutant of open_neighbors: the neighbours are opened without being
\* counted in tiles_to_open.
RECURSIVE open_neighbors_uncounted(_, _)
open_neighbors_uncounted(w, neighbors) ==
    IF neighbors = <<>> THEN w
    ELSE LET n == Head(neighbors)
         IN  IF w.b.tile_status[n] = TILE_CLOSED
             THEN open_neighbors_uncounted(
                      [b |-> [w.b EXCEPT !.tile_status[n] = TILE_OPENED],
                       queue |-> Append(w.queue, n)],
                      Tail(neighbors))
             ELSE open_neighbors_uncounted(w, Tail(neighbors))

\* The loop over the neighbours of a dequeued tile in Board._open_tiles:
\* every closed neighbour is opened, counted and enqueued.  w is the pair
\* of the board and the queue.
RECURSIVE open_neighbors(_, _)
open_neighbors(w, neighbors) ==
    IF neighbors = <<>> THEN w
    ELSE LET n == Head(neighbors)
         IN  IF w.b.tile_status[n] = TILE_CLOSED
             THEN open_neighbors(
                      [b |-> [w.b EXCEPT !.tile_status[n] = TILE_OPENED,
                                         !.tiles_to_open = @ - 1],
                       queue |-> Append(w.queue, n)],
                      Tail(neighbors))
             ELSE open_neighbors(w, Tail(neighbors))

\* One iteration of the "while queue" loop of Board._open_tiles: a tile is
\* dequeued and, if its count is 0, its closed neighbours are opened and
\* enqueued.  w is the pair of the board and the queue; with an empty queue
\* the loop has ended and w stays as it is.
wave_step(w) ==
    IF w.queue = <<>> THEN w
    ELSE LET t == Head(w.queue)
         IN  IF w.b.mine_count[t] > 0
             THEN [b |-> w.b, queue |-> Tail(w.queue)]
             ELSE open_neighbors([b |-> w.b, queue |-> Tail(w.queue)],
                                 get_neighbors(w.b, t[1], t[2]))

\* n iterations of the loop, the first half of them before the second.
RECURSIVE wave_steps(_, _)
wave_steps(w, n) ==
    IF n = 0 THEN w
    ELSE IF n = 1 THEN wave_step(w)
    ELSE LET half == wave_steps(w, n \div 2)
         IN  IF half.queue = <<>> THEN half
             ELSE wave_steps(half, n - n \div 2)

\* The "while queue" loop of Board._open_tiles.  A tile is enqueued when
\* it is opened, and no tile is opened twice: the loop ends within
\* Len(queue) + n_rows * n_cols iterations.
wave(b, queue) ==
    wave_steps([b |-> b, queue |-> queue],
               Len(queue) + b.n_rows * b.n_cols).b

\* The "while queue" loop of Board._open_tiles with its history: the board
\* it leaves, the tiles appended to the queue in the order of the appends
\* (the tile the queue starts with included) and the number of popleft
\* calls.
RECURSIVE fill_trace(_, _, _, _)
fill_trace(b, queue, enqueued, dequeues) ==
    IF queue = <<>>
    THEN [b |-> b, enqueued |-> enqueued, dequeues |-> dequeues]
    ELSE LET t == Head(queue)
             rest == Tail(queue)
         IN  IF b.mine_count[t] > 0
             THEN fill_trace(b, rest, enqueued, dequeues + 1)
             ELSE LET w == open_neighbors([b |-> b, queue |-> rest],
                                          get_neighbors(b, t[1], t[2]))
                  IN  fill_trace(w.b, w.queue,
                                 enqueued \o SubSeq(w.queue, Len(rest) + 1,
                                                    Len(w.queue)),
                                 dequeues + 1)

\* The flood fill that Board._open_tiles runs from the tile (i, j), with
\* its history.
open_tiles_trace(b, i, j) ==
    LET b1 == [b EXCEPT !.tile_status[<<i, j>>] = TILE_OPENED,
                        !.tiles_to_open = @ - 1]
    IN  fill_trace(b1, <<<<i, j>>>>, <<<<i, j>>>>, 0)

\* Mutant of victory: n_mines_left is left as it is.
victory_keeps_mines_left(b) ==
    LET b1 == change_game_status(b, "victory")
    IN  [b1 EXCEPT !.tile_status = [x \in CellsOf(b) |->
                                       IF b.is_mine[x] THEN TILE_CHECKED
                                       ELSE b.tile_status[x]]]

\* Mutant of victory: the status is assigned without _change_game_status,
\* so that the callback is not called.
victory_unannounced(b) ==
    [b EXCEPT !.game_status = "victory",
              !.n_mines_left = 0,
              !.tile_status = [x \in CellsOf(b) |->
                                  IF b.is_mine[x] THEN TILE_CHECKED
                                  ELSE b.tile_status[x]]]

\* The victory branch of Board._open_tiles.
victory(b) ==
    LET b1 == change_game_status(b, "victory")
    IN  [b1 EXCEPT !.n_mines_left = 0,
                   !.tile_status = [x \in CellsOf(b) |->
                                       IF b.is_mine[x] THEN TILE_CHECKED
                                       ELSE b.tile_status[x]]]

\* Mutant of open_tiles: the tile the fill starts from is opened without
\* being counted in tiles_to_open.
open_tiles_first_uncounted(b, i, j) ==
    LET b1 == [b EXCEPT !.tile_status[<<i, j>>] = TILE_OPENED]
        b2 == wave(b1, <<<<i, j>>>>)
    IN  IF b2.tiles_to_open = 0 THEN victory(b2) ELSE b2

\* Mutant of open_tiles: tiles_to_open is tested before the wave has run.
open_tiles_early_test(b, i, j) ==
    LET b1 == [b EXCEPT !.tile_status[<<i, j>>] = TILE_OPENED,
                        !.tiles_to_open = @ - 1]
        b2 == wave(b1, <<<<i, j>>>>)
    IN  IF b1.tiles_to_open = 0 THEN victory(b2) ELSE b2

\* Board._open_tiles
open_tiles(b, i, j) ==
    LET b1 == [b EXCEPT !.tile_status[<<i, j>>] = TILE_OPENED,
                        !.tiles_to_open = @ - 1]
        b2 == wave(b1, <<<<i, j>>>>)
    IN  IF b2.tiles_to_open = 0 THEN victory(b2) ELSE b2

\* Mutant of check_tile: removing a flag does not give the mine back to
\* n_mines_left.
check_tile_no_increment(b, i, j) ==
    IF b.tile_status[<<i, j>>] = TILE_CLOSED
    THEN [b EXCEPT !.tile_status[<<i, j>>] = TILE_CHECKED,
                   !.n_mines_left = @ - 1]
    ELSE IF b.tile_status[<<i, j>>] = TILE_CHECKED
    THEN [b EXCEPT !.tile_status[<<i, j>>] = TILE_CLOSED]
    ELSE b

\* Mutant of check_tile: a flag counts as an opening, so that setting it
\* decrements tiles_to_open as well.
check_tile_counts_opening(b, i, j) ==
    IF b.tile_status[<<i, j>>] = TILE_CLOSED
    THEN [b EXCEPT !.tile_status[<<i, j>>] = TILE_CHECKED,
                   !.n_mines_left = @ - 1,
                   !.tiles_to_open = @ - 1]
    ELSE IF b.tile_status[<<i, j>>] = TILE_CHECKED
    THEN [b EXCEPT !.tile_status[<<i, j>>] = TILE_CLOSED,
                   !.n_mines_left = @ + 1]
    ELSE b

\* Mutant of check_tile: taking a flag away gives back two mines.
check_tile_returns_two(b, i, j) ==
    IF b.tile_status[<<i, j>>] = TILE_CLOSED
    THEN [b EXCEPT !.tile_status[<<i, j>>] = TILE_CHECKED,
                   !.n_mines_left = @ - 1]
    ELSE IF b.tile_status[<<i, j>>] = TILE_CHECKED
    THEN [b EXCEPT !.tile_status[<<i, j>>] = TILE_CLOSED,
                   !.n_mines_left = @ + 2]
    ELSE b

\* Board._check_tile
check_tile(b, i, j) ==
    IF b.tile_status[<<i, j>>] = TILE_CLOSED
    THEN [b EXCEPT !.tile_status[<<i, j>>] = TILE_CHECKED,
                   !.n_mines_left = @ - 1]
    ELSE IF b.tile_status[<<i, j>>] = TILE_CHECKED
    THEN [b EXCEPT !.tile_status[<<i, j>>] = TILE_CLOSED,
                   !.n_mines_left = @ + 1]
    ELSE b

\* checked_count in Board._open_tile.
checked_count(b, neighbors) ==
    Cardinality({k \in 1 .. Len(neighbors) :
                    b.tile_status[neighbors[k]] = TILE_CHECKED})

\* Mutant of open_around: the loop goes on after a detonation.
RECURSIVE open_around_goes_on(_, _)
open_around_goes_on(b, neighbors) ==
    IF neighbors = <<>> THEN b
    ELSE LET n == Head(neighbors)
         IN  IF b.tile_status[n] = TILE_CLOSED
             THEN IF b.is_mine[n]
                  THEN LET b1 == [b EXCEPT !.losing_indices = n]
                           b2 == change_game_status(b1, "game_over")
                           b3 == [b2 EXCEPT !.tile_status[n] = TILE_OPENED]
                       IN  open_around_goes_on(b3, Tail(neighbors))
                  ELSE open_around_goes_on(open_tiles(b, n[1], n[2]),
                                           Tail(neighbors))
             ELSE open_around_goes_on(b, Tail(neighbors))

\* Mutant of open_around: the loop ends after the first flood fill.
RECURSIVE open_around_one_fill(_, _)
open_around_one_fill(b, neighbors) ==
    IF neighbors = <<>> THEN b
    ELSE LET n == Head(neighbors)
         IN  IF b.tile_status[n] = TILE_CLOSED
             THEN IF b.is_mine[n]
                  THEN LET b1 == [b EXCEPT !.losing_indices = n]
                           b2 == change_game_status(b1, "game_over")
                       IN  [b2 EXCEPT !.tile_status[n] = TILE_OPENED]
                  ELSE open_tiles(b, n[1], n[2])
             ELSE open_around_one_fill(b, Tail(neighbors))

\* Mutant of open_around: the mine detonated by a chord is opened without
\* being recorded in losing_indices.
RECURSIVE open_around_unrecorded(_, _)
open_around_unrecorded(b, neighbors) ==
    IF neighbors = <<>> THEN b
    ELSE LET n == Head(neighbors)
         IN  IF b.tile_status[n] = TILE_CLOSED
             THEN IF b.is_mine[n]
                  THEN LET b2 == change_game_status(b, "game_over")
                       IN  [b2 EXCEPT !.tile_status[n] = TILE_OPENED]
                  ELSE open_around_unrecorded(open_tiles(b, n[1], n[2]),
                                              Tail(neighbors))
             ELSE open_around_unrecorded(b, Tail(neighbors))

\* The loop over the neighbours of a satisfied number in Board._open_tile:
\* the first closed mine ends the game and the command, any other closed
\* neighbour is opened with _open_tiles.
RECURSIVE open_around(_, _)
open_around(b, neighbors) ==
    IF neighbors = <<>> THEN b
    ELSE LET n == Head(neighbors)
         IN  IF b.tile_status[n] = TILE_CLOSED
             THEN IF b.is_mine[n]
                  THEN LET b1 == [b EXCEPT !.losing_indices = n]
                           b2 == change_game_status(b1, "game_over")
                       IN  [b2 EXCEPT !.tile_status[n] = TILE_OPENED]
                  ELSE open_around(open_tiles(b, n[1], n[2]), Tail(neighbors))
             ELSE open_around(b, Tail(neighbors))

\* Mutant of detonate: the opened mine is counted as an opened tile.
detonate_counts_tile(b, i, j) ==
    LET b1 == change_game_status(b, "game_over")
    IN  [b1 EXCEPT !.losing_indices = <<i, j>>,
                   !.tile_status[<<i, j>>] = TILE_OPENED,
                   !.tiles_to_open = @ - 1]

\* The branch of Board._open_tile for a mine that is not flagged: the game
\* is over, the tile is recorded as the losing one and opened.
detonate(b, i, j) ==
    LET b1 == change_game_status(b, "game_over")
    IN  [b1 EXCEPT !.losing_indices = <<i, j>>,
                   !.tile_status[<<i, j>>] = TILE_OPENED]

\* Mutant of first_open: the status is not changed to "running".
first_open_stays_before_start(b, i, j, sample, now) ==
    LET b1 == put_mines(b, i, j, sample)
    IN  IF b1.raised # "none" THEN b1
        ELSE [b1 EXCEPT !.start_time = now]

\* The statements of Board._open_tile that start the game on the first
\* open: the mines are placed, the clock is read and the status becomes
\* "running".  An exception raised by _put_mines ends the command.
first_open(b, i, j, sample, now) ==
    LET b1 == put_mines(b, i, j, sample)
    IN  IF b1.raised # "none" THEN b1
        ELSE change_game_status([b1 EXCEPT !.start_time = now], "running")

\* Mutant of open_tile: the mine is tested before the flag.
open_tile_mine_first(b, i, j, sample, now) ==
    LET status == b.tile_status[<<i, j>>]
    IN  IF b.is_mine[<<i, j>>] THEN detonate(b, i, j)
        ELSE IF status = TILE_CHECKED THEN b
        ELSE IF status = TILE_CLOSED
        THEN IF b.game_status = "before_start"
             THEN LET b1 == first_open(b, i, j, sample, now)
                  IN  IF b1.raised # "none" THEN b1
                      ELSE open_tiles(b1, i, j)
             ELSE open_tiles(b, i, j)
        ELSE IF b.mine_count[<<i, j>>] = 0 THEN b
        ELSE LET neighbors == get_neighbors(b, i, j)
             IN  IF checked_count(b, neighbors) = b.mine_count[<<i, j>>]
                 THEN open_around(b, neighbors)
                 ELSE b

\* Board._open_tile; sample is the outcome of random.sample should the
\* command place the mines, now the reading of the clock.
open_tile(b, i, j, sample, now) ==
    LET status == b.tile_status[<<i, j>>]
    IN  IF status = TILE_CHECKED THEN b
        ELSE IF b.is_mine[<<i, j>>] THEN detonate(b, i, j)
        ELSE IF status = TILE_CLOSED
        THEN IF b.game_status = "before_start"
             THEN LET b1 == first_open(b, i, j, sample, now)
                  IN  IF b1.raised # "none" THEN b1
                      ELSE open_tiles(b1, i, j)
             ELSE open_tiles(b, i, j)
        ELSE IF b.mine_count[<<i, j>>] = 0 THEN b
        ELSE LET neighbors == get_neighbors(b, i, j)
             IN  IF checked_count(b, neighbors) = b.mine_count[<<i, j>>]
                 THEN open_around(b, neighbors)
                 ELSE b

\* Mutant of prepare_highlight: every neighbour of an opened number is
\* highlighted, whatever its status.
prepare_highlight_all_neighbors(b, i_hold, j_hold) ==
    IF i_hold = NoneInt \/ j_hold = NoneInt THEN {}
    ELSE IF b.tile_status[<<i_hold, j_hold>>] = TILE_CLOSED
    THEN {<<i_hold, j_hold>>}
    ELSE IF b.tile_status[<<i_hold, j_hold>>] = TILE_CHECKED THEN {}
    ELSE IF b.mine_count[<<i_hold, j_hold>>] = 0 THEN {}
    ELSE Range(get_neighbors(b, i_hold, j_hold))

\* Board._prepare_highlight: the tiles to draw as pressed while the left
\* button is held over (i_hold, j_hold).  The method assigns to no field of
\* the board.
prepare_highlight(b, i_hold, j_hold) ==
    IF i_hold = NoneInt \/ j_hold = NoneInt THEN {}
    ELSE IF b.tile_status[<<i_hold, j_hold>>] = TILE_CLOSED
    THEN {<<i_hold, j_hold>>}
    ELSE IF b.tile_status[<<i_hold, j_hold>>] = TILE_CHECKED THEN {}
    ELSE IF b.mine_count[<<i_hold, j_hold>>] = 0 THEN {}
    ELSE {n \in Range(get_neighbors(b, i_hold, j_hold)) :
             b.tile_status[n] = TILE_CLOSED}

---------------------------------------------------------------------------
(* Mouse handlers.  pos is the result of _get_tile_indices_at_mouse: a     *)
(* pair whose components are indices or None.                              *)

MousePositions(b) ==
    CellsOf(b) \cup {<<NoneInt, 0>>, <<0, NoneInt>>, <<NoneInt, NoneInt>>}

\* Mutant of on_mouse_down: "before_start" does not make the handler
\* return.
on_mouse_down_before_start(b, button, pos) ==
    IF b.game_status \in {"victory", "game_over"} THEN b
    ELSE IF button = RIGHT_BUTTON /\ pos[1] # NoneInt /\ pos[2] # NoneInt
    THEN check_tile(b, pos[1], pos[2])
    ELSE b

\* Mutant of on_mouse_down: only "before_start" makes the handler return.
on_mouse_down_after_end(b, button, pos) ==
    IF b.game_status = "before_start" THEN b
    ELSE IF button = RIGHT_BUTTON /\ pos[1] # NoneInt /\ pos[2] # NoneInt
    THEN check_tile(b, pos[1], pos[2])
    ELSE b

\* Board.on_mouse_down
on_mouse_down(b, button, pos) ==
    IF b.game_status \in {"before_start", "victory", "game_over"} THEN b
    ELSE IF button = RIGHT_BUTTON /\ pos[1] # NoneInt /\ pos[2] # NoneInt
    THEN check_tile(b, pos[1], pos[2])
    ELSE b

\* Board.on_mouse_up
on_mouse_up(b, button, pos, sample, now) ==
    IF b.game_status \in {"victory", "game_over"} THEN b
    ELSE IF button = LEFT_BUTTON /\ pos[1] # NoneInt /\ pos[2] # NoneInt
    THEN open_tile(b, pos[1], pos[2], sample, now)
    ELSE b

\* The samples random.sample can return during on_mouse_up: drawn only
\* when the command reaches _put_mines.
Samples(b, button, pos) ==
    IF /\ b.game_status = "before_start"
       /\ button = LEFT_BUTTON /\ pos[1] # NoneInt /\ pos[2] # NoneInt
       /\ b.tile_status[pos] = TILE_CLOSED
       /\ ~b.is_mine[pos]
       /\ b.n_mines <= Len(allowed_positions(b, pos[1], pos[2]))
    THEN random_sample(b, pos[1], pos[2])
    ELSE {{}}

---------------------------------------------------------------------------
(* The state machine.                                                      *)

\* The board object as a record of the variables.
Cur ==
    [n_rows         |-> n_rows,
     n_cols         |-> n_cols,
     n_mines        |-> n_mines,
     n_mines_left   |-> n_mines_left,
     is_mine        |-> is_mine,
     mine_count     |-> mine_count,
     tile_status    |-> tile_status,
     losing_indices |-> losing_indices,
     start_time     |-> start_time,
     tiles_to_open  |-> tiles_to_open,
     _time          |-> _time,
     game_status    |-> game_status,
     delivered      |-> delivered,
     raised         |-> raised]

\* The board as a command finds it: nothing delivered or raised yet.
Fresh(b) == [b EXCEPT !.delivered = <<>>, !.raised = "none"]

\* The board becomes the record b.
Load(b) ==
    /\ n_rows' = b.n_rows
    /\ n_cols' = b.n_cols
    /\ n_mines' = b.n_mines
    /\ n_mines_left' = b.n_mines_left
    /\ is_mine' = b.is_mine
    /\ mine_count' = b.mine_count
    /\ tile_status' = b.tile_status
    /\ losing_indices' = b.losing_indices
    /\ start_time' = b.start_time
    /\ _time' = b._time
    /\ tiles_to_open' = b.tiles_to_open
    /\ game_status' = b.game_status
    /\ delivered' = b.delivered
    /\ raised' = b.raised

\* The boards Board accepts (n_mines not greater than n_rows * n_cols),
\* within the bounds of the game-play specification.
Boards ==
    {p \in (1 .. MaxRows) \X (1 .. MaxCols) \X (0 .. MaxCells) :
        p[1] * p[2] <= MaxCells /\ p[3] <= p[1] * p[2]}

\* The boards of the placement specification.
GenBoards ==
    {p \in (1 .. GenRows) \X (1 .. GenCols) \X (0 .. GenMines) :
        p[3] <= p[1] * p[2]}

\* The branch of Board._open_tile that a left click on (i, j) takes.
open_branch(b, i, j) ==
    LET status == b.tile_status[<<i, j>>]
    IN  IF status = TILE_CHECKED THEN "open_checked"
        ELSE IF b.is_mine[<<i, j>>] THEN "open_mine"
        ELSE IF status = TILE_CLOSED
        THEN IF b.game_status = "before_start" THEN "open_first"
             ELSE "open_closed"
        ELSE IF b.mine_count[<<i, j>>] = 0 THEN "open_zero"
        ELSE IF checked_count(b, get_neighbors(b, i, j)) = b.mine_count[<<i, j>>]
        THEN "open_around"
        ELSE "open_number"

\* The branch of Board.on_mouse_up that the event takes.
up_branch(b, button, pos) ==
    IF b.game_status \in {"victory", "game_over"} THEN "ignored"
    ELSE IF button = LEFT_BUTTON /\ pos[1] # NoneInt /\ pos[2] # NoneInt
    THEN open_branch(b, pos[1], pos[2])
    ELSE "none"

\* The branch of Board._check_tile that a right click on (i, j) takes.
check_branch(b, i, j) ==
    IF b.tile_status[<<i, j>>] = TILE_CLOSED THEN "check"
    ELSE IF b.tile_status[<<i, j>>] = TILE_CHECKED THEN "uncheck"
    ELSE "check_opened"

\* The branch of Board.on_mouse_down that the event takes.
down_branch(b, button, pos) ==
    IF b.game_status \in {"before_start", "victory", "game_over"} THEN "ignored"
    ELSE IF button = RIGHT_BUTTON /\ pos[1] # NoneInt /\ pos[2] # NoneInt
    THEN check_branch(b, pos[1], pos[2])
    ELSE "none"

\* The board is the record b.
Is(b) ==
    /\ n_rows = b.n_rows
    /\ n_cols = b.n_cols
    /\ n_mines = b.n_mines
    /\ n_mines_left = b.n_mines_left
    /\ is_mine = b.is_mine
    /\ mine_count = b.mine_count
    /\ tile_status = b.tile_status
    /\ losing_indices = b.losing_indices
    /\ start_time = b.start_time
    /\ _time = b._time
    /\ tiles_to_open = b.tiles_to_open
    /\ game_status = b.game_status
    /\ delivered = b.delivered
    /\ raised = b.raised

\* Board(...) is constructed with parameters of the set boards.
Construct(boards) ==
    /\ \E p \in boards : Is(NewBoard(p[1], p[2], p[3]))
    /\ ticks = 0
    /\ game = None
    /\ last = "init"

Init == Construct(Boards)

InitGen == Construct(GenBoards)

\* A mouse button is pressed over pos.
MouseDown(button, pos) ==
    /\ Load(on_mouse_down(Fresh(Cur), button, pos))
    /\ last' = down_branch(Cur, button, pos)
    /\ UNCHANGED <<ticks, game>>

\* A mouse button is released over pos.
MouseUp(button, pos) ==
    /\ \E sample \in Samples(Cur, button, pos) :
           Load(on_mouse_up(Fresh(Cur), button, pos, sample, ticks))
    /\ last' = up_branch(Cur, button, pos)
    /\ UNCHANGED <<ticks, game>>

\* The argument lists with which reset makes the board p of the current
\* one: all three arguments, or only those that change a parameter.
ResetArgs(p) ==
    {p, <<IF p[1] = n_rows THEN NoneInt ELSE p[1],
          IF p[2] = n_cols THEN NoneInt ELSE p[2],
          IF p[3] = n_mines THEN NoneInt ELSE p[3]>>}

\* The status in which reset finds the board.
reset_branch(b) ==
    CASE b.game_status = "before_start" -> "reset_before_start"
      [] b.game_status = "running"      -> "reset_running"
      [] b.game_status = "victory"      -> "reset_victory"
      [] b.game_status = "game_over"    -> "reset_game_over"

\* reset is called with the arguments (r, c, m).
Reset(r, c, m) ==
    /\ Load(reset(Fresh(Cur), r, c, m))
    /\ last' = reset_branch(Cur)
    /\ UNCHANGED <<ticks, game>>

Next ==
    \/ \E button \in Buttons, pos \in MousePositions(Cur) : MouseDown(button, pos)
    \/ \E button \in Buttons, pos \in MousePositions(Cur) : MouseUp(button, pos)
    \/ \E p \in Boards : \E a \in ResetArgs(p) : Reset(a[1], a[2], a[3])

Spec == Init /\ [][Next]_vars

\* The placement specification: the first left click of a game on a board
\* of GenBoards, and reset.
FirstOpen(pos) ==
    /\ game_status = "before_start"
    /\ MouseUp(LEFT_BUTTON, pos)

NextGen ==
    \/ \E pos \in CellsOf(Cur) : FirstOpen(pos)
    \/ \E p \in GenBoards : \E a \in ResetArgs(p) : Reset(a[1], a[2], a[3])

SpecGen == InitGen /\ [][NextGen]_vars

\* The clock specification: the game on a board of TimeBoards while the
\* clock advances and the property time is read (the game reads it to draw
\* the timer and when the status changes).
TimeBoards ==
    {p \in (1 .. TimeRows) \X (1 .. TimeCols) \X (0 .. TimeCells) :
        p[1] * p[2] <= TimeCells /\ p[3] <= p[1] * p[2]}

InitTime == Construct(TimeBoards)

\* The clock advances.
Tick ==
    /\ ticks + TickStep <= MaxTicks * TickStep
    /\ ticks' = ticks + TickStep
    /\ UNCHANGED <<n_rows, n_cols, n_mines, n_mines_left, is_mine, mine_count,
                   tile_status, losing_indices, start_time, _time,
                   tiles_to_open, game_status, delivered, raised, game,
                   last>>

\* The property time is read.
ReadTime ==
    /\ Load(time(Fresh(Cur), ticks))
    /\ last' = "time"
    /\ UNCHANGED <<ticks, game>>

NextTime ==
    \/ \E button \in Buttons, pos \in MousePositions(Cur) : MouseDown(button, pos)
    \/ \E button \in Buttons, pos \in MousePositions(Cur) : MouseUp(button, pos)
    \/ \E p \in TimeBoards : \E a \in ResetArgs(p) : Reset(a[1], a[2], a[3])
    \/ Tick
    \/ ReadTime

SpecTime == InitTime /\ [][NextTime]_vars

---------------------------------------------------------------------------
(* Vocabulary of the properties.                                           *)

\* The cells at Chebyshev distance at most 1 of each other.
Near(x, y) == Abs(x[1] - y[1]) <= 1 /\ Abs(x[2] - y[2]) <= 1

\* The in-bounds neighbours of the cell x of board b, as a set.
Around(b, x) == {y \in CellsOf(b) : y # x /\ Near(x, y)}

Mines(b) == {x \in CellsOf(b) : b.is_mine[x]}

\* The boards a left click on the tile pos can produce, one for every
\* sample random.sample can draw.
Opened(pos) ==
    {on_mouse_up(Fresh(Cur), LEFT_BUTTON, pos, sample, ticks) :
        sample \in Samples(Cur, LEFT_BUTTON, pos)}

\* The board after a right click on the tile pos of board b.
Flagged(b, pos) == on_mouse_down(Fresh(b), RIGHT_BUTTON, pos)

---------------------------------------------------------------------------
\* C1: first-click safety.  On a board with n_mines <= n_rows * n_cols - 9,
\* whatever tile the first left click of a game opens and whatever sample is
\* drawn, no tile at Chebyshev distance at most 1 of the clicked tile is a
\* mine after the click.
C1_FirstClickSafety ==
    (game_status = "before_start" /\ n_mines <= n_rows * n_cols - 9) =>
        \A pos \in CellsOf(Cur) : \A a \in Opened(pos) :
            \A x \in CellsOf(Cur) : Near(x, pos) => ~a.is_mine[x]

\* A first click has placed mines on a sparse board and opened the tile
\* (1, 1), which has all eight neighbours.
C1_Witness ==
    /\ last = "open_first"
    /\ n_mines >= 1
    /\ n_mines <= n_rows * n_cols - 9
    /\ n_rows >= 3 /\ n_cols >= 3
    /\ Cardinality(Mines(Cur)) = n_mines
    /\ tile_status[<<1, 1>>] = TILE_OPENED

\* C2: on every board with n_mines < n_rows * n_cols the tile of the first
\* left click of a game is not a mine after placement, and the click leaves
\* the game running or won.
C2_FirstOpenNeverLoses ==
    (game_status = "before_start" /\ n_mines < n_rows * n_cols) =>
        \A pos \in CellsOf(Cur) : \A a \in Opened(pos) :
            /\ ~a.is_mine[pos]
            /\ a.game_status \in {"running", "victory"}

\* C3: once the game has left "before_start", exactly n_mines tiles are
\* mines, and this stays so until reset.
C3_MineCount ==
    game_status # "before_start" => Cardinality(Mines(Cur)) = n_mines

\* A game with several mines is being played: a flag was just set.
C3_Witness ==
    /\ last = "check"
    /\ game_status = "running"
    /\ n_mines >= 2
    /\ Cardinality(Mines(Cur)) = n_mines

\* C4: after placement, mine_count of every tile is the number of mines
\* among its in-bounds neighbours, the tile itself not counted.
C4_AdjacentCounts ==
    mine_count # None =>
        \A x \in CellsOf(Cur) :
            mine_count[x] = Cardinality(Around(Cur, x) \cap Mines(Cur))

\* A first click has placed mines on a board whose tile (1, 1) has eight
\* neighbours and a mine among them, and some tile counts two mines or more.
C4_Witness ==
    /\ last = "open_first"
    /\ mine_count # None
    /\ n_rows >= 3 /\ n_cols >= 3
    /\ Cardinality(Around(Cur, <<1, 1>>)) = 8
    /\ mine_count[<<1, 1>>] >= 1
    /\ \E x \in CellsOf(Cur) : mine_count[x] >= 2

\* C5: tiles_to_open is never negative, and every left click that changes
\* at least one tile from closed to opened leaves tiles_to_open strictly
\* smaller than it found it.
C5_TilesToOpen ==
    /\ tiles_to_open >= 0
    /\ \A pos \in CellsOf(Cur) : \A a \in Opened(pos) :
           (\E x \in CellsOf(Cur) :
                tile_status[x] = TILE_CLOSED /\ a.tile_status[x] = TILE_OPENED)
               => a.tiles_to_open < tiles_to_open

\* C6: in every reachable state tiles_to_open is 0 exactly when the game
\* status is "victory".
C6_ZeroIffVictory ==
    (tiles_to_open = 0) <=> (game_status = "victory")

\* C6 as amended: on a board with n_mines < n_rows * n_cols, tiles_to_open
\* is 0 exactly when the game status is "victory".  (With n_mines =
\* n_rows * n_cols it is 0 from construction or reset on, in "before_start".)
C6_ZeroIffVictoryUnlessAllMines ==
    n_mines < n_rows * n_cols =>
        ((tiles_to_open = 0) <=> (game_status = "victory"))

\* A game was won by a click that was not the first one.
C6_Witness ==
    /\ game_status = "victory"
    /\ n_mines < n_rows * n_cols
    /\ tiles_to_open = 0
    /\ last \in {"open_closed", "open_around"}

\* C7: in "victory" every mine is flagged, every other tile is opened, and
\* n_mines_left is 0.
C7_VictoryBoard ==
    game_status = "victory" =>
        /\ \A x \in CellsOf(Cur) :
               tile_status[x] = IF is_mine[x] THEN TILE_CHECKED ELSE TILE_OPENED
        /\ n_mines_left = 0

\* A game with several mines has just been won by a left click that was not
\* the first one.
C7_Witness ==
    /\ game_status = "victory"
    /\ n_mines >= 2
    /\ last \in {"open_closed", "open_around"}
    /\ delivered = <<"victory">>

\* The chord conditions of C8 and C9: the game is running, pos is an opened
\* tile with a positive count, and as many of its neighbours are flagged.
ChordTriggered(pos) ==
    /\ game_status = "running"
    /\ tile_status[pos] = TILE_OPENED
    /\ mine_count[pos] > 0
    /\ Cardinality({y \in Around(Cur, pos) : tile_status[y] = TILE_CHECKED})
           = mine_count[pos]

ClosedAround(pos) == {y \in Around(Cur, pos) : tile_status[y] = TILE_CLOSED}

\* C8: safe chord.  While running, a left click on an opened tile with a
\* positive count and as many flagged neighbours, none of whose closed
\* neighbours is a mine, leaves every neighbour that was closed opened and
\* does not end the game in "game_over".
C8_SafeChord ==
    \A pos \in CellsOf(Cur) :
        (ChordTriggered(pos) /\ ClosedAround(pos) \cap Mines(Cur) = {}) =>
            \A a \in Opened(pos) :
                /\ a.game_status # "game_over"
                /\ \A y \in ClosedAround(pos) : a.tile_status[y] = TILE_OPENED

\* The neighbours of (i, j) in the order C9 fixes, those outside the board
\* left out.
ChordOrder(i, j) ==
    SelectSeq(<<<<i - 1, j>>, <<i - 1, j - 1>>, <<i - 1, j + 1>>,
                <<i, j - 1>>, <<i, j + 1>>,
                <<i + 1, j>>, <<i + 1, j - 1>>, <<i + 1, j + 1>>>>,
              LAMBDA y : y \in CellsOf(Cur))

\* The first closed mine in ChordOrder around pos.
FirstClosedMine(pos) ==
    LET order == ChordOrder(pos[1], pos[2])
        k == CHOOSE n \in 1 .. Len(order) :
                 /\ order[n] \in ClosedAround(pos) \cap Mines(Cur)
                 /\ \A m \in 1 .. n - 1 :
                        order[m] \notin ClosedAround(pos) \cap Mines(Cur)
    IN  order[k]

\* C9: detonating chord.  While running, a left click on an opened tile
\* with a positive count and as many flagged neighbours, one of whose closed
\* neighbours at least is a mine, ends in "game_over" with losing_indices the
\* first closed mine among the neighbours in the order (i-1,j), (i-1,j-1),
\* (i-1,j+1), (i,j-1), (i,j+1), (i+1,j), (i+1,j-1), (i+1,j+1), and that
\* tile is opened.
C9_DetonatingChord ==
    \A pos \in CellsOf(Cur) :
        (ChordTriggered(pos) /\ ClosedAround(pos) \cap Mines(Cur) # {}) =>
            \A a \in Opened(pos) :
                /\ a.game_status = "game_over"
                /\ a.losing_indices = FirstClosedMine(pos)
                /\ a.tile_status[a.losing_indices] = TILE_OPENED

\* A chord has ended the game: the detonated tile is a neighbour of an
\* opened safe tile, another neighbour of which is a mine that is still
\* closed.
C9_Witness ==
    /\ last = "open_around"
    /\ game_status = "game_over"
    /\ \E x \in CellsOf(Cur) :
           /\ tile_status[x] = TILE_OPENED /\ ~is_mine[x]
           /\ losing_indices \in Around(Cur, x)
           /\ \E y \in Around(Cur, x) \ {losing_indices} :
                  is_mine[y] /\ tile_status[y] = TILE_CLOSED

\* C10: flag toggling is its own inverse.  In every reachable state and for
\* every tile, two right clicks on the tile in a row leave the board as it
\* was: the status of the tile, n_mines_left and every other field.
C10_ToggleTwice ==
    \A pos \in CellsOf(Cur) :
        Fresh(Flagged(Flagged(Cur, pos), pos)) = Fresh(Cur)

\* A right click has just removed the only flag of a running game: the
\* second of two toggles of a tile.
C10_Witness ==
    /\ last = "uncheck"
    /\ game_status = "running"
    /\ n_mines_left = n_mines
    /\ \A x \in CellsOf(Cur) : tile_status[x] # TILE_CHECKED

\* The fields of the board b other than the statuses of the tiles and
\* n_mines_left are those of the current board, and the command delivered
\* nothing to the callback.
SameButTiles(b) ==
    /\ b.n_rows = n_rows /\ b.n_cols = n_cols /\ b.n_mines = n_mines
    /\ b.is_mine = is_mine
    /\ b.mine_count = mine_count
    /\ b.losing_indices = losing_indices
    /\ b.tiles_to_open = tiles_to_open
    /\ b.game_status = game_status
    /\ b.delivered = <<>>

\* C11: while running, a right click on a closed tile flags it and
\* decrements n_mines_left, on a flagged tile closes it and increments
\* n_mines_left, on an opened tile changes nothing; in the three cases
\* tiles_to_open, is_mine, mine_count, the game status, losing_indices and
\* the status of every other tile are unchanged.
C11_ToggleFlagFrame ==
    game_status = "running" =>
        \A pos \in CellsOf(Cur) :
            LET a == Flagged(Cur, pos)
                s == tile_status[pos]
            IN  /\ s = TILE_CLOSED =>
                       /\ a.tile_status[pos] = TILE_CHECKED
                       /\ a.n_mines_left = n_mines_left - 1
                /\ s = TILE_CHECKED =>
                       /\ a.tile_status[pos] = TILE_CLOSED
                       /\ a.n_mines_left = n_mines_left + 1
                /\ s = TILE_OPENED =>
                       /\ a.tile_status[pos] = TILE_OPENED
                       /\ a.n_mines_left = n_mines_left
                /\ SameButTiles(a)
                /\ \A x \in CellsOf(Cur) \ {pos} : a.tile_status[x] = tile_status[x]

\* A right click has just set the only flag of a running game in which a
\* tile is opened and tiles remain to be opened.
C11_Witness ==
    /\ last = "check"
    /\ game_status = "running"
    /\ n_mines_left = n_mines - 1
    /\ Cardinality({x \in CellsOf(Cur) : tile_status[x] = TILE_CHECKED}) = 1
    /\ \E x \in CellsOf(Cur) : tile_status[x] = TILE_OPENED
    /\ tiles_to_open > 0

\* The flagged tiles of the board b.
Flags(b) == {x \in CellsOf(b) : b.tile_status[x] = TILE_CHECKED}

\* C12: in every reachable state, whatever the game status, n_mines_left is
\* n_mines minus the number of flagged tiles.
C12_MinesLeft ==
    n_mines_left = n_mines - Cardinality(Flags(Cur))

\* A game is running with more flags than mines, a flag having just been
\* set: n_mines_left is negative.
C12_Witness ==
    /\ last = "check"
    /\ game_status = "running"
    /\ Cardinality(Flags(Cur)) > n_mines
    /\ n_mines_left < 0

\* The status changes of the lifecycle that a mouse command may perform.
Allowed(s, t) ==
    \/ s = "before_start" /\ t = "running"
    \/ s = "running" /\ t \in {"victory", "game_over"}

ResetLabels ==
    {"reset_before_start", "reset_running", "reset_victory", "reset_game_over"}

\* C13: lifecycle.  The status changes only as the command performs status
\* changes one after the other, each of them "before_start" -> "running",
\* "running" -> "victory" or "running" -> "game_over", unless the command
\* is reset, which ends in "before_start" from any status.  So "victory"
\* and "game_over" are never entered directly from "before_start" (a first
\* open that wins passes through "running") and are left only by reset.
C13_Lifecycle ==
    [][LET chain == <<game_status>> \o delivered'
       IN  IF last' \in ResetLabels
           THEN game_status' = "before_start"
           ELSE /\ \A k \in 1 .. Len(delivered') : Allowed(chain[k], chain[k + 1])
                /\ game_status' = chain[Len(chain)]]_vars

\* The first open of a game has won it, passing through "running".
C13_Witness ==
    /\ last = "open_first"
    /\ game_status = "victory"
    /\ delivered = <<"running", "victory">>

\* C14: terminal states absorb the commands.  In "victory" and in
\* "game_over", a left click (open) and a right click (flag) on any tile
\* leave every field of the board as it is and deliver nothing to the
\* callback.
C14_TerminalAbsorbs ==
    game_status \in {"victory", "game_over"} =>
        \A pos \in CellsOf(Cur) :
            /\ Opened(pos) = {Fresh(Cur)}
            /\ Flagged(Cur, pos) = Fresh(Cur)

\* A click was just ignored in a lost game that still has a closed safe
\* tile, a closed mine and a flag.
C14_Witness ==
    /\ last = "ignored"
    /\ game_status = "game_over"
    /\ delivered = <<>>
    /\ \E x \in CellsOf(Cur) : tile_status[x] = TILE_CLOSED /\ ~is_mine[x]
    /\ \E x \in CellsOf(Cur) : tile_status[x] = TILE_CLOSED /\ is_mine[x]
    /\ Flags(Cur) # {}

\* The argument lists of reset within the bounds of the clock
\* specification: each argument given or omitted, the board that results
\* being one that Board accepts.
ResetChoices ==
    {a \in ({NoneInt} \cup (1 .. TimeRows)) \X ({NoneInt} \cup (1 .. TimeCols))
            \X ({NoneInt} \cup (0 .. TimeCells)) :
        LET r == IF a[1] = NoneInt THEN n_rows ELSE a[1]
            c == IF a[2] = NoneInt THEN n_cols ELSE a[2]
            m == IF a[3] = NoneInt THEN n_mines ELSE a[3]
        IN  r * c <= TimeCells /\ m <= r * c}

\* C15: reset, called in any reachable state with any of its arguments
\* given or omitted, leaves the board in "before_start" with the given
\* parameters in place of the old ones, every tile closed, no mine,
\* n_mines_left = n_mines, tiles_to_open = n_rows * n_cols - n_mines, no
\* losing tile, no start time and a time of 0 seconds.
C15_Reset ==
    \A a \in ResetChoices :
        LET b == reset(Fresh(Cur), a[1], a[2], a[3])
        IN  /\ b.n_rows = (IF a[1] = NoneInt THEN n_rows ELSE a[1])
            /\ b.n_cols = (IF a[2] = NoneInt THEN n_cols ELSE a[2])
            /\ b.n_mines = (IF a[3] = NoneInt THEN n_mines ELSE a[3])
            /\ b.game_status = "before_start"
            /\ b.tile_status = [x \in Cells(b.n_rows, b.n_cols) |-> TILE_CLOSED]
            /\ b.is_mine = [x \in Cells(b.n_rows, b.n_cols) |-> FALSE]
            /\ b.n_mines_left = b.n_mines
            /\ b.tiles_to_open = b.n_rows * b.n_cols - b.n_mines
            /\ b.losing_indices = None
            /\ b.start_time = NoneInt
            /\ b._time = 0
            /\ time(b, ticks)._time = 0

\* A running game was just reset after the clock had advanced.
C15_Witness ==
    /\ last = "reset_running"
    /\ ticks > 0
    /\ game_status = "before_start"
    /\ start_time = NoneInt /\ _time = 0
    /\ n_rows * n_cols >= 2
    /\ n_mines >= 1

\* C16: every status change made by a left click or by reset is passed to
\* the callback exactly once, in the order of the changes: the statuses
\* delivered by a command are, one after the other, the statuses the board
\* goes through (each differs from the one before it, except for the
\* "before_start" that reset always delivers), the last of them is the game
\* status after the command, and a command that delivers nothing leaves the
\* status as it was.  A first open that wins delivers "running" and then
\* "victory"; reset delivers "before_start".
C16_Notifications ==
    [][LET chain == <<game_status>> \o delivered'
       IN  /\ game_status' = chain[Len(chain)]
           /\ IF last' \in ResetLabels
              THEN delivered' = <<"before_start">>
              ELSE \A k \in 1 .. Len(delivered') : chain[k + 1] # chain[k]
           /\ (last' = "open_first" /\ game_status' = "victory")
                  => delivered' = <<"running", "victory">>]_vars

\* The first open of a game on a board of four tiles or more with a mine
\* has won it: the callback received "running" and then "victory".
C16_Witness ==
    /\ last = "open_first"
    /\ n_rows * n_cols >= 4
    /\ n_mines >= 1
    /\ delivered = <<"running", "victory">>
    /\ game_status = delivered[Len(delivered)]

\* The tiles of the board b that are opened and hold a mine.
OpenedMines(b) ==
    {x \in CellsOf(b) : b.tile_status[x] = TILE_OPENED /\ b.is_mine[x]}

\* C17: in every reachable state of every accepted board, no tile is both
\* opened and a mine while the status is "before_start" or "running", and
\* in "game_over" the only such tile is losing_indices.
C17_OpenedMines ==
    /\ game_status \in {"before_start", "running"} => OpenedMines(Cur) = {}
    /\ game_status = "game_over" => OpenedMines(Cur) = {losing_indices}

\* C18: a left click on a flagged tile does nothing, whether or not the
\* tile is a mine: the statuses of the tiles, the counters, the game status
\* and losing_indices are unchanged and nothing is delivered to the
\* callback.
C18_OpenFlagged ==
    \A pos \in CellsOf(Cur) :
        tile_status[pos] = TILE_CHECKED => Opened(pos) = {Fresh(Cur)}

\* A left click on a flagged tile was just processed in a running game all
\* of whose flags are on mines: the clicked tile is a flagged mine.
C18_Witness ==
    /\ last = "open_checked"
    /\ game_status = "running"
    /\ Flags(Cur) # {}
    /\ Flags(Cur) \subseteq Mines(Cur)
    /\ delivered = <<>>

\* C19: while running, a left click on a mine that is not flagged ends the
\* game in "game_over" with losing_indices the clicked tile and that tile
\* opened; tiles_to_open, n_mines_left and the status of every other tile
\* are unchanged.
C19_OpenMine ==
    game_status = "running" =>
        \A pos \in CellsOf(Cur) :
            (is_mine[pos] /\ tile_status[pos] # TILE_CHECKED) =>
                \A a \in Opened(pos) :
                    /\ a.game_status = "game_over"
                    /\ a.losing_indices = pos
                    /\ a.tile_status[pos] = TILE_OPENED
                    /\ a.tiles_to_open = tiles_to_open
                    /\ a.n_mines_left = n_mines_left
                    /\ \A x \in CellsOf(Cur) \ {pos} :
                           a.tile_status[x] = tile_status[x]

\* A left click on a mine has just ended a game in which safe tiles were
\* still to be opened, a flag was set and another mine stays closed.
C19_Witness ==
    /\ last = "open_mine"
    /\ game_status = "game_over"
    /\ delivered = <<"game_over">>
    /\ tile_status[losing_indices] = TILE_OPENED
    /\ tiles_to_open > 0
    /\ Flags(Cur) # {}
    /\ \E x \in Mines(Cur) : tile_status[x] = TILE_CLOSED

\* C20: on a board with n_mines = n_rows * n_cols, the first left click of
\* a game ends it at once in "game_over" with losing_indices the clicked
\* tile.
C20_AllMinesFirstOpen ==
    (game_status = "before_start" /\ n_mines = n_rows * n_cols) =>
        \A pos \in CellsOf(Cur) : \A a \in Opened(pos) :
            /\ a.game_status = "game_over"
            /\ a.losing_indices = pos

\* C21: in every reachable state, every in-bounds neighbour of an opened
\* tile with mine_count 0 is opened.
C21_ZeroRegions ==
    mine_count # None =>
        \A x \in CellsOf(Cur) :
            (tile_status[x] = TILE_OPENED /\ mine_count[x] = 0) =>
                \A y \in Around(Cur, x) : tile_status[y] = TILE_OPENED

\* The tiles that the board a has opened and the current board has not.
NewlyOpened(a) ==
    {x \in CellsOf(Cur) :
        tile_status[x] # TILE_OPENED /\ a.tile_status[x] = TILE_OPENED}

\* C21 as amended: every left click leaves every in-bounds neighbour of
\* each safe tile with mine_count 0 that it has opened either opened or
\* flagged (a flagged neighbour is skipped by the flood fill, and a
\* detonated mine is opened without its neighbours).
C21_ZeroRegionsButFlags ==
    \A pos \in CellsOf(Cur) : \A a \in Opened(pos) :
        \A x \in NewlyOpened(a) :
            (~a.is_mine[x] /\ a.mine_count[x] = 0) =>
                \A y \in Around(Cur, x) :
                    a.tile_status[y] \in {TILE_OPENED, TILE_CHECKED}

\* A left click of a running game has just flooded a region around a flag:
\* an opened safe tile with mine_count 0 has an opened neighbour and a
\* flagged one.
C21_Witness ==
    /\ last = "open_closed"
    /\ game_status = "running"
    /\ \E x \in CellsOf(Cur) :
           /\ tile_status[x] = TILE_OPENED /\ ~is_mine[x] /\ mine_count[x] = 0
           /\ \E y \in Around(Cur, x) : tile_status[y] = TILE_CHECKED
           /\ \E y \in Around(Cur, x) : tile_status[y] = TILE_OPENED

\* The boards on which a left click on the closed safe tile pos starts the
\* flood fill of _open_tiles: the current board while running, the board
\* with the mines just placed on the first open.
FillStarts(pos) ==
    IF tile_status[pos] # TILE_CLOSED \/ is_mine[pos] THEN {}
    ELSE IF game_status = "running" THEN {Fresh(Cur)}
    ELSE IF game_status = "before_start"
    THEN {b \in {first_open(Fresh(Cur), pos[1], pos[2], sample, ticks) :
                    sample \in Samples(Cur, LEFT_BUTTON, pos)} :
             b.raised = "none"}
    ELSE {}

\* C22: the flood fill terminates and never revisits a tile.  Within one
\* flood fill every tile is appended to the queue, and marked opened, at
\* most once; a tile that is opened already is never appended; the queue is
\* empty after as many dequeues as there were appends, at most
\* n_rows * n_cols of them; and the tiles appended are exactly the tiles the
\* fill has opened.
C22_FloodFill ==
    \A pos \in CellsOf(Cur) : \A b \in FillStarts(pos) :
        LET T == open_tiles_trace(b, pos[1], pos[2])
            n == Len(T.enqueued)
        IN  /\ \A k, l \in 1 .. n : k # l => T.enqueued[k] # T.enqueued[l]
            /\ \A k \in 1 .. n : b.tile_status[T.enqueued[k]] = TILE_CLOSED
            /\ T.dequeues = n
            /\ n <= n_rows * n_cols
            /\ Range(T.enqueued) =
                   {x \in CellsOf(Cur) : /\ b.tile_status[x] # TILE_OPENED
                                          /\ T.b.tile_status[x] = TILE_OPENED}
            /\ T.b = wave([b EXCEPT !.tile_status[pos] = TILE_OPENED,
                                    !.tiles_to_open = @ - 1], <<pos>>)

\* The first open of a game has flooded a region of six tiles or more with
\* several tiles of mine_count 0 and stopped at numbered tiles, safe tiles
\* staying closed.
C22_Witness ==
    /\ last = "open_first"
    /\ game_status = "running"
    /\ Cardinality({x \in CellsOf(Cur) : tile_status[x] = TILE_OPENED}) >= 6
    /\ Cardinality({x \in CellsOf(Cur) :
                       tile_status[x] = TILE_OPENED /\ mine_count[x] = 0}) >= 2
    /\ \E x \in CellsOf(Cur) : tile_status[x] = TILE_OPENED /\ mine_count[x] > 0
    /\ tiles_to_open > 0

\* C23: every left click (a single open, a flood fill, a chord made of
\* several flood fills) decreases tiles_to_open by exactly the number of
\* tiles it changes from closed to opened, a detonated mine not counted.
C23_CountsOpened ==
    \A pos \in CellsOf(Cur) : \A a \in Opened(pos) :
        tiles_to_open - a.tiles_to_open =
            Cardinality({x \in CellsOf(Cur) :
                            /\ tile_status[x] = TILE_CLOSED
                            /\ a.tile_status[x] = TILE_OPENED
                            /\ x # a.losing_indices})

\* A chord has just opened tiles in a game that goes on: with the tile of
\* the chord and the flags around it, three tiles or more are opened and
\* safe tiles remain closed.
C23_Witness ==
    /\ last = "open_around"
    /\ game_status = "running"
    /\ Flags(Cur) # {}
    /\ Cardinality({x \in CellsOf(Cur) : tile_status[x] = TILE_OPENED}) >= 3
    /\ tiles_to_open > 0
    /\ tiles_to_open = Cardinality({x \in CellsOf(Cur) :
                                       ~is_mine[x] /\ tile_status[x] # TILE_OPENED})

\* C24: the highlight computed for the position (r, c) is empty if r or c
\* is None, {(r, c)} if the tile is closed, empty if it is flagged or opened
\* with mine_count 0, and otherwise the set of the neighbours of (r, c) that
\* are closed; in every reachable state it holds closed tiles only.
C24_Highlight ==
    \A pos \in MousePositions(Cur) :
        LET h == prepare_highlight(Cur, pos[1], pos[2])
        IN  /\ h = (IF pos[1] = NoneInt \/ pos[2] = NoneInt THEN {}
                    ELSE IF tile_status[pos] = TILE_CLOSED THEN {pos}
                    ELSE IF tile_status[pos] = TILE_CHECKED THEN {}
                    ELSE IF mine_count[pos] = 0 THEN {}
                    ELSE ClosedAround(pos))
            /\ \A x \in h : x \in CellsOf(Cur) /\ tile_status[x] = TILE_CLOSED

\* A running game in which the highlight over an opened number is a proper
\* part of its neighbours: some of them are closed, others flagged or
\* opened.
C24_Witness ==
    /\ game_status = "running"
    /\ \E pos \in CellsOf(Cur) :
           /\ tile_status[pos] = TILE_OPENED /\ mine_count[pos] > 0
           /\ prepare_highlight(Cur, pos[1], pos[2]) # {}
           /\ \E y \in Around(Cur, pos) : tile_status[y] = TILE_CHECKED
           /\ \E y \in Around(Cur, pos) : tile_status[y] = TILE_OPENED

\* The readings of the clock within the bounds.
Clock == {k * TickStep : k \in 0 .. MaxTicks}

\* C25: the time freezes.  While the game is running, reading time gives
\* the whole seconds between start_time and the clock.  In "victory" and
\* "game_over" reading it gives the stored value whatever the clock shows,
\* and the stored value changes only when time is read in a running game or
\* when reset sets it to 0: so the value read is that of the last reading
\* made while running, 0 if there was none.  In "before_start" (after
\* construction or reset, until the first open) the value is 0.
C25_TimeFreezes ==
    /\ [](game_status = "running" =>
              /\ start_time # NoneInt
              /\ time(Cur, ticks)._time = (ticks - start_time) \div 1000)
    /\ [](game_status \in {"victory", "game_over"} =>
              \A now \in Clock : time(Cur, now)._time = _time)
    /\ [](game_status = "before_start" =>
              _time = 0 /\ \A now \in Clock : time(Cur, now)._time = 0)
    /\ [][_time' # _time =>
              \/ game_status = "running" /\ last' = "time"
              \/ last' \in ResetLabels /\ _time' = 0]_vars

\* The time was just read in a finished game: it is a second or more, and
\* less than the seconds that have passed on the clock since the start.
C25_Witness ==
    /\ last = "time"
    /\ game_status \in {"victory", "game_over"}
    /\ start_time # NoneInt
    /\ _time >= 1
    /\ (ticks - start_time) \div 1000 > _time

\* C26: the mines are placed exactly once per game.  is_mine and
\* mine_count change only by reset or by the first open of a game, which
\* finds the board in "before_start" with no mine, no count and every tile
\* closed; the game leaves "before_start" only by such an open, with the
\* counts computed; and from then on until reset no command changes them.
C26_PlacedOnce ==
    /\ [][(is_mine' # is_mine \/ mine_count' # mine_count) =>
              \/ last' \in ResetLabels
              \/ /\ last' = "open_first"
                 /\ game_status = "before_start"
                 /\ game_status' # "before_start"
                 /\ mine_count = None
                 /\ Mines(Cur) = {}
                 /\ \A x \in CellsOf(Cur) : tile_status[x] = TILE_CLOSED]_vars
    /\ [][(game_status = "before_start" /\ game_status' # "before_start") =>
              last' = "open_first" /\ mine_count' # None]_vars

\* A chord has just opened tiles in a game with two mines or more, after
\* flags were set: the mines and the counts are those the first open placed.
C26_Witness ==
    /\ last = "open_around"
    /\ game_status \in {"running", "victory"}
    /\ n_mines >= 2
    /\ Cardinality(Mines(Cur)) = n_mines
    /\ mine_count # None

\* C27: losing_indices is set exactly in "game_over": in every reachable
\* state it is a tile if and only if the status is "game_over", and that
\* tile is then an opened mine.
C27_LosingTile ==
    /\ (losing_indices # None) <=> (game_status = "game_over")
    /\ losing_indices # None =>
           /\ losing_indices \in CellsOf(Cur)
           /\ is_mine[losing_indices]
           /\ tile_status[losing_indices] = TILE_OPENED

\* A game with two mines or more was just lost by a left click on a closed
\* mine; another mine stays closed.
C27_Witness ==
    /\ last = "open_mine"
    /\ game_status = "game_over"
    /\ n_mines >= 2
    /\ losing_indices \in Mines(Cur)
    /\ \E x \in Mines(Cur) \ {losing_indices} : tile_status[x] = TILE_CLOSED

C29_FlagBeforeStart ==
    game_status = "before_start" =>
        \A pos \in CellsOf(Cur) :
            tile_status[pos] = TILE_CLOSED =>
                LET a == Flagged(Cur, pos)
                IN  /\ a.tile_status[pos] = TILE_CHECKED
                    /\ a.n_mines_left = n_mines_left - 1
                    /\ Fresh(Flagged(a, pos)) = Fresh(Cur)

\* C29 as amended: in "before_start" a right click changes nothing.  Every
\* tile is closed, none is flagged, n_mines_left is n_mines, and a mouse
\* button pressed over any position leaves every field of the board as it
\* is and delivers nothing; the flag rule applies only while running.
C29_NoFlagBeforeStart ==
    game_status = "before_start" =>
        /\ \A x \in CellsOf(Cur) : tile_status[x] = TILE_CLOSED
        /\ n_mines_left = n_mines
        /\ \A button \in Buttons, pos \in MousePositions(Cur) :
               on_mouse_down(Fresh(Cur), button, pos) = Fresh(Cur)

\* A mouse button pressed before the first open of a game was just
\* ignored, on a board with mines to flag.
C29_Witness ==
    /\ last = "ignored"
    /\ game_status = "before_start"
    /\ n_mines >= 1
    /\ n_mines_left = n_mines
    /\ Flags(Cur) = {}

\* A board as an element of a set of boards: its arrays are written as the
\* sequences of their values in row-major order (None stays <<>>), and what
\* the last command delivered or raised is dropped. Board is the inverse.
Packed(b) ==
    LET order == RowMajor(b.n_rows, b.n_cols)
        flat(f) == [k \in 1 .. Len(order) |-> f[order[k]]]
    IN  [n_rows         |-> b.n_rows,
         n_cols         |-> b.n_cols,
         n_mines        |-> b.n_mines,
         n_mines_left   |-> b.n_mines_left,
         is_mine        |-> flat(b.is_mine),
         mine_count     |-> IF b.mine_count = None THEN <<>>
                            ELSE flat(b.mine_count),
         tile_status    |-> flat(b.tile_status),
         losing_indices |-> b.losing_indices,
         start_time     |-> b.start_time,
         tiles_to_open  |-> b.tiles_to_open,
         _time          |-> b._time,
         game_status    |-> b.game_status]

Board(k) ==
    LET index(x) == x[1] * k.n_cols + x[2] + 1
    IN  [n_rows         |-> k.n_rows,
         n_cols         |-> k.n_cols,
         n_mines        |-> k.n_mines,
         n_mines_left   |-> k.n_mines_left,
         is_mine        |-> [x \in CellsOf(k) |-> k.is_mine[index(x)]],
         mine_count     |-> IF k.mine_count = <<>> THEN None
                            ELSE [x \in CellsOf(k) |-> k.mine_count[index(x)]],
         tile_status    |-> [x \in CellsOf(k) |-> k.tile_status[index(x)]],
         losing_indices |-> k.losing_indices,
         start_time     |-> k.start_time,
         tiles_to_open  |-> k.tiles_to_open,
         _time          |-> k._time,
         game_status    |-> k.game_status,
         delivered      |-> <<>>,
         raised         |-> "none"]

\* The boards that one command (a left click or a right click on a tile)
\* can make of the board k.
Commands(k) ==
    LET b == Board(k)
    IN  UNION {{Packed(on_mouse_up(b, LEFT_BUTTON, pos, sample, 0)) :
                   sample \in Samples(b, LEFT_BUTTON, pos)}
               \cup {Packed(on_mouse_down(b, RIGHT_BUTTON, pos))} :
               pos \in CellsOf(b)}

\* The boards that sequences of commands make of the boards of frontier,
\* those of seen being known already.
RECURSIVE Closure(_, _)
Closure(seen, frontier) ==
    IF frontier = {} THEN seen
    ELSE LET new == UNION {Commands(b) : b \in frontier} \ seen
         IN  Closure(seen \cup new, new)

\* The boards reachable by left and right clicks from a new or reset board
\* of the dimensions and mines of boards.
Reachable(boards) ==
    LET start == {Packed(NewBoard(p[1], p[2], p[3])) : p \in boards}
    IN  Closure(start, start)

\* C30: n_mines_left may exceed n_mines: the board is in a state with
\* n_mines_left > n_mines, or some sequence of commands on some board
\* reaches one.
C30_MayExceed ==
    \E b \in Reachable(TimeBoards) \cup {Packed(Cur)} : b.n_mines_left > b.n_mines

\* C30 (as amended): n_mines_left never exceeds n_mines: whatever the
\* commands, reads of the clock and resets, n_mines_left <= n_mines in every
\* state, the bound being met again when the last flag is taken away.
C30_NeverExceeds ==
    n_mines_left <= n_mines

\* The last flag of a running game was just taken away, on a board with
\* mines: n_mines_left is back at n_mines.
C30_Witness ==
    /\ last = "uncheck"
    /\ game_status = "running"
    /\ n_mines >= 1
    /\ Flags(Cur) = {}
    /\ n_mines_left = n_mines

\* The orders in which the elements of the set S can be enumerated.
RECURSIVE Orders(_)
Orders(S) ==
    IF S = {} THEN {<<>>}
    ELSE UNION {{<<x>> \o t : t \in Orders(S \ {x})} : x \in S}

\* The board that the chord on the tile pos makes of the current one when
\* the neighbours of pos are processed in the given order.
Chord(order) == open_around(Fresh(Cur), order)

\* The orders of the neighbours of pos.
ChordOrders(pos) == Orders(Range(get_neighbors(Cur, pos[1], pos[2])))

\* C31: the order of the neighbours in a chord matters only for
\* losing_indices.  For every opened number with as many flagged
\* neighbours, processing the neighbours in any other order gives the same
\* game status, the same tiles_to_open and the same status of every tile
\* but the detonated one.
C31_OrderOnlyForLosingTile ==
    \A pos \in CellsOf(Cur) :
        ChordTriggered(pos) =>
            LET a == Chord(get_neighbors(Cur, pos[1], pos[2]))
            IN  \A order \in ChordOrders(pos) :
                    LET p == Chord(order)
                    IN  /\ p.game_status = a.game_status
                        /\ p.tiles_to_open = a.tiles_to_open
                        /\ \A x \in CellsOf(Cur) \
                                  {a.losing_indices, p.losing_indices} :
                               p.tile_status[x] = a.tile_status[x]

\* C31 (as amended): for every opened number with as many flagged
\* neighbours, processing the neighbours in any other order gives the same
\* game status and the same notifications; if none of the closed
\* neighbours is a mine it gives the same board in every field; if one is,
\* the chord ends in "game_over" in every order, on the first closed mine of
\* that order.
C31_OrderOfSafeChord ==
    \A pos \in CellsOf(Cur) :
        ChordTriggered(pos) =>
            LET a == Chord(get_neighbors(Cur, pos[1], pos[2]))
            IN  \A order \in ChordOrders(pos) :
                    LET p == Chord(order)
                        mined == {k \in 1 .. Len(order) :
                                     order[k] \in ClosedAround(pos) \cap Mines(Cur)}
                    IN  /\ p.game_status = a.game_status
                        /\ p.delivered = a.delivered
                        /\ mined = {} => p = a
                        /\ mined # {} =>
                               /\ p.game_status = "game_over"
                               /\ \E k \in mined :
                                      /\ p.losing_indices = order[k]
                                      /\ \A m \in mined : k <= m

\* A running game in which a chord can open two closed neighbours or more,
\* none of them a mine, and opens them in whatever order they are taken.
C31_Witness ==
    /\ game_status = "running"
    /\ \E pos \in CellsOf(Cur) :
           /\ ChordTriggered(pos)
           /\ Cardinality(ClosedAround(pos)) >= 2
           /\ ClosedAround(pos) \cap Mines(Cur) = {}
           /\ \A order \in ChordOrders(pos) :
                  \A y \in ClosedAround(pos) :
                      Chord(order).tile_status[y] = TILE_OPENED

\* The tiles of the current board that flood fills started on the tiles of
\* opened reach: the closed neighbours of a tile with count 0 that is
\* reached, and so on.
RECURSIVE FloodSet(_)
FloodSet(opened) ==
    LET more == {y \in CellsOf(Cur) \ opened :
                    /\ tile_status[y] = TILE_CLOSED
                    /\ \E x \in opened : mine_count[x] = 0 /\ Near(x, y)}
    IN  IF more = {} THEN opened ELSE FloodSet(opened \cup more)

\* The position of the first closed mine among the neighbours of pos, in
\* the order of get_neighbors.
FirstMineAt(pos) ==
    LET order == get_neighbors(Cur, pos[1], pos[2])
    IN  CHOOSE k \in 1 .. Len(order) :
            /\ order[k] \in ClosedAround(pos) \cap Mines(Cur)
            /\ \A m \in 1 .. k - 1 :
                   order[m] \notin ClosedAround(pos) \cap Mines(Cur)

\* C32: a detonating chord stops at the first closed mine among the
\* neighbours in the order of get_neighbors.  The closed neighbours before
\* it, none of them a mine, are opened by flood fills, tiles_to_open being
\* decreased by the number of tiles these open; the mine is opened; every
\* closed neighbour after it, mine or not, stays closed unless one of these
\* flood fills reached it, and no other tile changes.
C32_ChordStopsAtFirstMine ==
    \A pos \in CellsOf(Cur) :
        (ChordTriggered(pos) /\ ClosedAround(pos) \cap Mines(Cur) # {}) =>
            LET order == get_neighbors(Cur, pos[1], pos[2])
                k == FirstMineAt(pos)
                before == {order[m] : m \in 1 .. k - 1} \cap ClosedAround(pos)
                after == {order[m] : m \in k + 1 .. Len(order)}
                             \cap ClosedAround(pos)
                filled == FloodSet(before)
            IN  \A a \in Opened(pos) :
                    /\ a.losing_indices = order[k]
                    /\ \A y \in before : a.tile_status[y] = TILE_OPENED
                    /\ tiles_to_open - a.tiles_to_open = Cardinality(filled)
                    /\ \A y \in after :
                           a.tile_status[y] =
                               IF y \in filled THEN TILE_OPENED ELSE TILE_CLOSED
                    /\ \A x \in CellsOf(Cur) :
                           a.tile_status[x] =
                               IF x \in filled \cup {order[k]} THEN TILE_OPENED
                               ELSE tile_status[x]

\* A running game in which a chord detonates a mine after it has opened a
\* closed neighbour and before it comes to another closed neighbour, which
\* stays closed.
C32_Witness ==
    /\ game_status = "running"
    /\ \E pos \in CellsOf(Cur) :
           /\ ChordTriggered(pos)
           /\ ClosedAround(pos) \cap Mines(Cur) # {}
           /\ LET order == get_neighbors(Cur, pos[1], pos[2])
                  k == FirstMineAt(pos)
              IN  \E m \in 1 .. k - 1 : \E n \in k + 1 .. Len(order) :
                      /\ order[m] \in ClosedAround(pos)
                      /\ order[n] \in ClosedAround(pos)
                      /\ \A a \in Opened(pos) :
                             /\ a.game_status = "game_over"
                             /\ a.tile_status[order[m]] = TILE_OPENED
                             /\ a.tile_status[order[n]] = TILE_CLOSED

\* C33: while running, a left click on an opened tile leaves every field
\* of the board as it was and notifies nobody, unless the tile has a
\* positive count and exactly as many flagged neighbours.
C33_OpenOpened ==
    \A pos \in CellsOf(Cur) :
        (/\ game_status = "running"
         /\ tile_status[pos] = TILE_OPENED
         /\ ~ChordTriggered(pos)) =>
            \A a \in Opened(pos) : a = Fresh(Cur)

\* C34: mine placement is always feasible.  On every board with
\* 0 <= n_mines <= n_rows * n_cols and for every tile of the first click,
\* allowed_positions holds n_mines positions or more, and the click places
\* the mines without raising an exception.
C34_PlacementFeasible ==
    game_status = "before_start" =>
        \A pos \in CellsOf(Cur) :
            /\ Len(allowed_positions(Cur, pos[1], pos[2])) >= n_mines
            /\ \A a \in Opened(pos) : a.raised = "none"

\* The values of self.mine_count at the moments Board._open_tile reads an
\* entry of it: in _open_tiles, after _put_mines if the click is the first
\* one, or in the test of the count of an opened tile.
open_tile_reads(b, i, j, sample, now) ==
    LET status == b.tile_status[<<i, j>>]
    IN  IF status = TILE_CHECKED THEN {}
        ELSE IF b.is_mine[<<i, j>>] THEN {}
        ELSE IF status = TILE_CLOSED
        THEN IF b.game_status = "before_start"
             THEN LET b1 == first_open(b, i, j, sample, now)
                  IN  IF b1.raised # "none" THEN {} ELSE {b1.mine_count}
             ELSE {b.mine_count}
        ELSE {b.mine_count}

\* The same for Board.on_mouse_up.
on_mouse_up_reads(b, button, pos, sample, now) ==
    IF b.game_status \in {"victory", "game_over"} THEN {}
    ELSE IF button = LEFT_BUTTON /\ pos[1] # NoneInt /\ pos[2] # NoneInt
    THEN open_tile_reads(b, pos[1], pos[2], sample, now)
    ELSE {}

\* The same for Board._prepare_highlight.
prepare_highlight_reads(b, i_hold, j_hold) ==
    IF i_hold = NoneInt \/ j_hold = NoneInt THEN {}
    ELSE IF b.tile_status[<<i_hold, j_hold>>] = TILE_CLOSED THEN {}
    ELSE IF b.tile_status[<<i_hold, j_hold>>] = TILE_CHECKED THEN {}
    ELSE {b.mine_count}

\* C35: in every reachable state with status "before_start" all tiles are
\* closed, no tile is a mine and n_mines_left = n_mines; and in every
\* reachable state no mouse-up command (open, flood fill, chord) and no
\* highlight computation reads mine_count while it is None.
C35_BeforeStart ==
    /\ game_status = "before_start" =>
           /\ \A x \in CellsOf(Cur) : tile_status[x] = TILE_CLOSED
           /\ Mines(Cur) = {}
           /\ n_mines_left = n_mines
    /\ \A pos \in MousePositions(Cur) :
           /\ \A button \in Buttons : \A sample \in Samples(Cur, button, pos) :
                  \A read \in on_mouse_up_reads(Cur, button, pos, sample, ticks) :
                      read # None
           /\ \A read \in prepare_highlight_reads(Cur, pos[1], pos[2]) :
                  read # None

\* A lost game was just reset: the board is in "before_start" with mines
\* to place, mine_count is None again, and the first click on a tile reads
\* mine_count once the mines are placed.
C35_Witness ==
    /\ last = "reset_game_over"
    /\ game_status = "before_start"
    /\ mine_count = None
    /\ n_mines >= 1 /\ n_mines < n_rows * n_cols
    /\ \E pos \in CellsOf(Cur) : \E sample \in Samples(Cur, LEFT_BUTTON, pos) :
           on_mouse_up_reads(Cur, LEFT_BUTTON, pos, sample, ticks) # {}

\* The boards that on_status_change_callback sees, one for each call of
\* _change_game_status, in the order of the calls: the board as it is at
\* the moment of the call.  In the victory branch of _open_tiles the call
\* precedes the assignments to n_mines_left and tile_status.
open_tiles_callbacks(b, i, j) ==
    LET b1 == [b EXCEPT !.tile_status[<<i, j>>] = TILE_OPENED,
                        !.tiles_to_open = @ - 1]
        b2 == wave(b1, <<<<i, j>>>>)
    IN  IF b2.tiles_to_open = 0
        THEN <<change_game_status(b2, "victory")>>
        ELSE <<>>

\* The same for the loop over the neighbours in Board._open_tile: for a
\* closed mine the call follows the assignment to losing_indices and
\* precedes the one to tile_status.
RECURSIVE open_around_callbacks(_, _)
open_around_callbacks(b, neighbors) ==
    IF neighbors = <<>> THEN <<>>
    ELSE LET n == Head(neighbors)
         IN  IF b.tile_status[n] = TILE_CLOSED
             THEN IF b.is_mine[n]
                  THEN LET b1 == [b EXCEPT !.losing_indices = n]
                       IN  <<change_game_status(b1, "game_over")>>
                  ELSE open_tiles_callbacks(b, n[1], n[2])
                           \o open_around_callbacks(open_tiles(b, n[1], n[2]),
                                                    Tail(neighbors))
             ELSE open_around_callbacks(b, Tail(neighbors))

\* The same for Board._open_tile: for a mine the call precedes the
\* assignments to losing_indices and tile_status; on the first click the
\* call for "running" follows _put_mines and the reading of the clock.
open_tile_callbacks(b, i, j, sample, now) ==
    LET status == b.tile_status[<<i, j>>]
    IN  IF status = TILE_CHECKED THEN <<>>
        ELSE IF b.is_mine[<<i, j>>]
        THEN <<change_game_status(b, "game_over")>>
        ELSE IF status = TILE_CLOSED
        THEN IF b.game_status = "before_start"
             THEN LET b1 == first_open(b, i, j, sample, now)
                  IN  IF b1.raised # "none" THEN <<>>
                      ELSE <<b1>> \o open_tiles_callbacks(b1, i, j)
             ELSE open_tiles_callbacks(b, i, j)
        ELSE IF b.mine_count[<<i, j>>] = 0 THEN <<>>
        ELSE LET neighbors == get_neighbors(b, i, j)
             IN  IF checked_count(b, neighbors) = b.mine_count[<<i, j>>]
                 THEN open_around_callbacks(b, neighbors)
                 ELSE <<>>

\* The same for Board.on_mouse_up.
on_mouse_up_callbacks(b, button, pos, sample, now) ==
    IF b.game_status \in {"victory", "game_over"} THEN <<>>
    ELSE IF button = LEFT_BUTTON /\ pos[1] # NoneInt /\ pos[2] # NoneInt
    THEN open_tile_callbacks(b, pos[1], pos[2], sample, now)
    ELSE <<>>

\* C36: the board that the callback reads is the final one of the
\* transition.  In every call made during a left click, a callback told
\* "game_over" finds losing_indices set and that tile opened, and a
\* callback told "victory" finds n_mines_left = 0 and every mine flagged.
C36_CallbackSeesFinalState ==
    \A pos \in CellsOf(Cur) : \A sample \in Samples(Cur, LEFT_BUTTON, pos) :
        LET seen == on_mouse_up_callbacks(Fresh(Cur), LEFT_BUTTON, pos,
                                          sample, ticks)
        IN  \A k \in 1 .. Len(seen) :
                /\ seen[k].game_status = "game_over" =>
                       /\ seen[k].losing_indices # None
                       /\ seen[k].tile_status[seen[k].losing_indices]
                              = TILE_OPENED
                /\ seen[k].game_status = "victory" =>
                       /\ seen[k].n_mines_left = 0
                       /\ \A x \in Mines(Cur) :
                              seen[k].tile_status[x] = TILE_CHECKED

\* C37: open commands never change a flagged tile.  In every step, a tile
\* that is flagged stays flagged, unless the step is a reset or the right
\* click that takes this flag away (the tile is then closed); in particular
\* no left click, flood fill or chord opens, detonates or closes it.
C37_FlagsStay ==
    [][\A x \in CellsOf(Cur) :
           tile_status[x] = TILE_CHECKED =>
               \/ last' \in ResetLabels
               \/ last' = "uncheck" /\ tile_status'[x] \in {TILE_CLOSED, TILE_CHECKED}
               \/ tile_status'[x] = TILE_CHECKED]_vars

\* A chord has just detonated a mine next to a flag set on a safe tile: the
\* flag is still there.
C37_Witness ==
    /\ last = "open_around"
    /\ game_status = "game_over"
    /\ \E x \in Flags(Cur) : ~is_mine[x] /\ Near(x, losing_indices)

---------------------------------------------------------------------------
(* Leaderboard (leaderboard.py).  A leaderboard is a record of max_items   *)
(* and data, a function from the difficulties that have a list to the      *)
(* sequence of its <<name, time>> entries.                                 *)

Difficulties == {"EASY", "NORMAL", "HARD", "CUSTOM"}

\* The keys of Leaderboard.data.
Listed == {"EASY", "NORMAL", "HARD"}

\* Leaderboard.__init__ with data = None.
NewLeaderboard(max_items) ==
    [max_items |-> max_items, data |-> [d \in Listed |-> <<>>]]

\* Leaderboard.needs_update
needs_update(lb, difficulty, t) ==
    IF difficulty \notin DOMAIN lb.data THEN FALSE
    ELSE LET data == lb.data[difficulty]
         IN  IF Len(data) < lb.max_items THEN TRUE
             ELSE data[Len(data)][2] > t

\* The index i at which the loop "while i < len(data) and time >=
\* data[i][1]: i += 1" of Leaderboard.update stops (0-based as in the code).
RECURSIVE insertion_index(_, _, _)
insertion_index(data, t, i) ==
    IF i < Len(data) /\ t >= data[i + 1][2]
    THEN insertion_index(data, t, i + 1)
    ELSE i

\* Mutant of update: the loop stops at the first entry with the same time
\* (time > data[i][1]), so that a tie is placed before the entries it ties.
update_before_ties(lb, difficulty, name, t) ==
    IF difficulty \notin DOMAIN lb.data THEN lb
    ELSE LET data == lb.data[difficulty]
             i == Cardinality({k \in 1 .. Len(data) : data[k][2] < t})
             inserted == SubSeq(data, 1, i) \o <<<<name, t>>>>
                             \o SubSeq(data, i + 1, Len(data))
             kept == IF Len(inserted) > lb.max_items
                     THEN SubSeq(inserted, 1, Len(inserted) - 1)
                     ELSE inserted
         IN  [lb EXCEPT !.data[difficulty] = kept]

\* Leaderboard.update
update(lb, difficulty, name, t) ==
    IF difficulty \notin DOMAIN lb.data THEN lb
    ELSE LET data == lb.data[difficulty]
             i == insertion_index(data, t, 0)
             inserted == SubSeq(data, 1, i) \o <<<<name, t>>>>
                             \o SubSeq(data, i + 1, Len(data))
             kept == IF Len(inserted) > lb.max_items
                     THEN SubSeq(inserted, 1, Len(inserted) - 1)
                     ELSE inserted
         IN  [lb EXCEPT !.data[difficulty] = kept]

---------------------------------------------------------------------------
(* Game (game.py).  A game is a record of the fields of Game that the      *)
(* handlers read or write; the board it owns is the board of the           *)
(* variables.  Handlers that act on both take and return a pair            *)
(* [g |-> game, b |-> board].                                              *)

MAX_BOARD_DIMENSION == 50
DELAY_BEFORE_NAME_INPUT_MS == 1000

\* gui.py: the button the widgets react to.
LEFT_CLICK == 1

Min(x, y) == IF x < y THEN x ELSE y
Max(x, y) == IF x > y THEN x ELSE y

\* Timer.__init__
NewTimer == [running |-> FALSE, start_time |-> NoneInt, interval |-> NoneInt]

\* Timer.start
timer_start(timer, interval, now) ==
    [running |-> TRUE, start_time |-> now, interval |-> interval]

\* Game.set_difficulty: CUSTOM keeps the parameters as they are.
set_difficulty(g, difficulty) ==
    CASE difficulty = "EASY" ->
             [g EXCEPT !.n_rows = 10, !.n_cols = 10, !.n_mines = 10]
      [] difficulty = "NORMAL" ->
             [g EXCEPT !.n_rows = 16, !.n_cols = 16, !.n_mines = 40]
      [] difficulty = "HARD" ->
             [g EXCEPT !.n_rows = 16, !.n_cols = 30, !.n_mines = 99]
      [] OTHER -> g

\* Game.__init__ without a state file, or with one that names difficulty:
\* the leaderboard keeps 5 items and is empty, the inputs are active for
\* CUSTOM only.  reset_args records the arguments of the last Board.reset
\* that the game issued.
NewGame(difficulty) ==
    set_difficulty([n_rows       |-> 10,
                    n_cols       |-> 10,
                    n_mines      |-> 10,
                    selected     |-> difficulty,
                    active_input |-> difficulty = "CUSTOM",
                    in_input     |-> "none",
                    mode         |-> "game",
                    timer        |-> NewTimer,
                    leaderboard  |-> NewLeaderboard(5),
                    status       |-> "READY TO GO!",
                    reset_args   |-> None,
                    raised       |-> "none"],
                   difficulty)

\* Game.on_status_change, called by the board b at time now.
on_status_change(g, new_status, b, now) ==
    CASE new_status = "game_over" -> [g EXCEPT !.status = "GAME OVER!"]
      [] new_status = "victory" ->
             LET g1 == [g EXCEPT !.status = "VICTORY!"]
             IN  IF needs_update(g.leaderboard, g.selected, time(b, now)._time)
                 THEN [g1 EXCEPT !.timer =
                          timer_start(@, DELAY_BEFORE_NAME_INPUT_MS, now)]
                 ELSE g1
      [] new_status = "before_start" -> [g EXCEPT !.status = "READY TO GO!"]
      [] OTHER -> [g EXCEPT !.status = "GOOD LUCK!"]

\* The calls of on_status_change that a command of the board makes: seen
\* holds the board as it is at each call.
RECURSIVE notify(_, _, _)
notify(g, seen, now) ==
    IF seen = <<>> THEN g
    ELSE notify(on_status_change(g, Head(seen).game_status, Head(seen), now),
                Tail(seen), now)

\* Board.reset(r, c, m) called by the game: reset notifies "before_start"
\* as its last statement.
board_reset(gb, r, c, m, now) ==
    LET b1 == reset(gb.b, r, c, m)
    IN  [g |-> on_status_change([gb.g EXCEPT !.reset_args = <<r, c, m>>],
                                "before_start", b1, now),
         b |-> b1]

\* Game.reset_game
reset_game(gb, now) ==
    board_reset(gb, gb.g.n_rows, gb.g.n_cols, gb.g.n_mines, now)

\* Game.show_name_input: the label reads board.time.
show_name_input(gb, now) ==
    [g |-> [gb.g EXCEPT !.mode = "name_input"], b |-> time(gb.b, now)]

\* Timer.check of show_name_input_timer.
timer_check(gb, now) ==
    IF gb.g.timer.running
       /\ now - gb.g.timer.start_time >= gb.g.timer.interval
    THEN show_name_input([gb EXCEPT !.g.timer.running = FALSE], now)
    ELSE gb

\* Game.on_difficulty_change
on_difficulty_change(gb, difficulty, now) ==
    LET g1 == set_difficulty(gb.g, difficulty)
        g2 == [g1 EXCEPT !.active_input = (difficulty = "CUSTOM")]
    IN  reset_game([gb EXCEPT !.g = g2], now)

\* int(value) for a string of digits, written as the sequence of them.
RECURSIVE int(_)
int(value) ==
    IF Len(value) = 1 THEN value[1]
    ELSE 10 * int(SubSeq(value, 1, Len(value) - 1)) + value[Len(value)]

\* Game.set_game_parameter; value is the string of the input.
set_game_parameter(gb, parameter, max_value, value, now) ==
    LET v0 == IF value = <<>> THEN 1 ELSE int(value)
        v == Min(Max(1, v0), max_value)
        g1 == CASE parameter = "n_rows" -> [gb.g EXCEPT !.n_rows = v]
                [] parameter = "n_cols" -> [gb.g EXCEPT !.n_cols = v]
                [] parameter = "n_mines" -> [gb.g EXCEPT !.n_mines = v]
        g2 == [g1 EXCEPT !.n_mines = Min(@, g1.n_rows * g1.n_cols - 1)]
    IN  reset_game([gb EXCEPT !.g = g2], now)

\* Game.on_rows_enter
on_rows_enter(gb, value, now) ==
    set_game_parameter(gb, "n_rows", MAX_BOARD_DIMENSION, value, now)

\* Game.on_cols_enter
on_cols_enter(gb, value, now) ==
    set_game_parameter(gb, "n_cols", MAX_BOARD_DIMENSION, value, now)

\* Game.on_mines_enter
on_mines_enter(gb, value, now) ==
    set_game_parameter(gb, "n_mines", gb.g.n_rows * gb.g.n_cols - 1, value, now)

---------------------------------------------------------------------------
(* The main loop (Game.start_main_loop).                                   *)

\* The widgets the mouse can be over: an option of the difficulty
\* selector, the value of an input, a button, the board, or none of them.
Widgets ==
    Difficulties \cup {"height", "width", "mines", "restart", "leaderboard",
                       "board", "nowhere"}

\* SelectionGroup.on_mouse_up of the difficulty selector: the callback runs
\* before the selection changes.
selector_on_mouse_up(gb, button, over, now) ==
    IF button # LEFT_CLICK \/ over \notin Difficulties THEN gb
    ELSE LET gb1 == IF over # gb.g.selected
                    THEN on_difficulty_change(gb, over, now)
                    ELSE gb
         IN  [gb1 EXCEPT !.g.selected = over]

\* Input.on_mouse_up of the three inputs, called one after the other: the
\* input whose value the mouse is over is put in input, the others out of
\* it.
inputs_on_mouse_up(gb, button, over) ==
    IF ~gb.g.active_input \/ button # LEFT_CLICK THEN gb
    ELSE [gb EXCEPT !.g.in_input =
             IF over \in {"height", "width", "mines"} THEN over ELSE "none"]

\* Button.on_mouse_up of the restart button: its callback is Board.reset,
\* called without arguments.
restart_on_mouse_up(gb, button, over, now) ==
    IF button # LEFT_CLICK \/ over # "restart" THEN gb
    ELSE LET b1 == reset(gb.b, NoneInt, NoneInt, NoneInt)
         IN  [g |-> on_status_change(gb.g, "before_start", b1, now),
              b |-> b1]

\* Button.on_mouse_up of the leaderboard button: its callback is
\* Game.show_leaderboard.
leaderboard_on_mouse_up(gb, button, over) ==
    IF button # LEFT_CLICK \/ over # "leaderboard" THEN gb
    ELSE [gb EXCEPT !.g.mode = "leaderboard"]

\* Board.on_mouse_up called by the game: the board calls on_status_change
\* at each change of status, with the board as it is at that moment.
board_on_mouse_up(gb, button, pos, sample, now) ==
    [g |-> notify(gb.g, on_mouse_up_callbacks(gb.b, button, pos, sample, now),
                  now),
     b |-> on_mouse_up(gb.b, button, pos, sample, now)]

\* Input.on_key_down of the three inputs, which process_events calls with
\* event.key: an input that is in input reads the attribute key of that
\* integer.
inputs_on_key_down(gb) ==
    IF gb.g.in_input = "none" THEN gb
    ELSE [gb EXCEPT !.g.raised = "AttributeError"]

\* Game.process_events for the events of one frame: none or one.  over is
\* the widget under the mouse and pos the tile under it (None off the
\* board).
process_events(gb, event, sample, now) ==
    IF event.type = "NOEVENT" THEN gb
    ELSE IF gb.g.mode = "leaderboard"
    THEN IF event.type = "MOUSEBUTTONUP"
         THEN [gb EXCEPT !.g.mode = "game"]
         ELSE gb
    ELSE IF gb.g.mode = "name_input"
    THEN IF event.type = "KEYDOWN"
         THEN [gb EXCEPT !.g.raised = "AttributeError"]
         ELSE gb
    ELSE IF event.type = "MOUSEBUTTONUP"
    THEN LET gb1 == selector_on_mouse_up(gb, event.button, event.over, now)
             gb2 == inputs_on_mouse_up(gb1, event.button, event.over)
             gb3 == restart_on_mouse_up(gb2, event.button, event.over, now)
             gb4 == leaderboard_on_mouse_up(gb3, event.button, event.over)
         IN  board_on_mouse_up(gb4, event.button, event.pos, sample, now)
    ELSE IF event.type = "MOUSEBUTTONDOWN"
    THEN [gb EXCEPT !.b = on_mouse_down(gb.b, event.button, event.pos)]
    ELSE inputs_on_key_down(gb)

\* One iteration of the loop of Game.start_main_loop when the clock shows
\* now: the time of the board is read for the timer label, the events are
\* processed and the timer of the name input is checked.
main_loop_iteration(g, b, event, sample, now) ==
    LET gb1 == process_events([g |-> g, b |-> time(b, now)], event, sample, now)
    IN  IF gb1.g.raised # "none" THEN gb1 ELSE timer_check(gb1, now)

\* The tiles clicked in the game specification: the first and the last
\* one.
GameClicks(b) == {<<0, 0>>, <<b.n_rows - 1, b.n_cols - 1>>}

\* The options of the difficulty selector clicked in the game
\* specification: the games are played on the 10 x 10 board of EASY.
GameOptions == {"EASY", "CUSTOM"}

\* The events of the game specification.
GameEvents(b) ==
    {[type |-> "NOEVENT", button |-> LEFT_CLICK, over |-> "nowhere",
      pos |-> <<NoneInt, NoneInt>>],
     [type |-> "KEYDOWN", button |-> LEFT_CLICK, over |-> "nowhere",
      pos |-> <<NoneInt, NoneInt>>]}
    \cup {[type |-> t, button |-> button, over |-> w,
           pos |-> <<NoneInt, NoneInt>>] :
             t \in {"MOUSEBUTTONUP", "MOUSEBUTTONDOWN"},
             button \in Buttons,
             w \in (Widgets \ {"board"}) \ (Difficulties \ GameOptions)}
    \cup {[type |-> t, button |-> button, over |-> "board", pos |-> pos] :
             t \in {"MOUSEBUTTONUP", "MOUSEBUTTONDOWN"},
             button \in Buttons,
             pos \in GameClicks(b)}

\* The samples of the game specification: of the samples random.sample
\* can return, the first and the last n_mines allowed positions.
GameSamples(b, event) ==
    IF /\ event.type = "MOUSEBUTTONUP"
       /\ b.game_status = "before_start"
       /\ event.button = LEFT_BUTTON
       /\ event.pos[1] # NoneInt /\ event.pos[2] # NoneInt
       /\ b.n_mines <= Len(allowed_positions(b, event.pos[1], event.pos[2]))
    THEN LET allowed == allowed_positions(b, event.pos[1], event.pos[2])
         IN  {Range(SubSeq(allowed, 1, b.n_mines)),
              Range(SubSeq(allowed, Len(allowed) - b.n_mines + 1,
                           Len(allowed)))}
    ELSE {{}}

\* Game() is constructed with the difficulty of a state file, or EASY.
ConstructGame(difficulties) ==
    /\ \E difficulty \in difficulties :
          /\ game = NewGame(difficulty)
          /\ Is(NewBoard(game.n_rows, game.n_cols, game.n_mines))
    /\ ticks = 0
    /\ last = "init"

InitGame == ConstructGame({"EASY"})

\* The main loop runs once with the given event.
Frame(event) ==
    /\ game.raised = "none"
    /\ \E sample \in GameSamples(Cur, event) :
          LET gb == main_loop_iteration(game, Fresh(Cur), event, sample, ticks)
          IN  /\ Load(gb.b)
              /\ game' = gb.g
    /\ last' = "frame"
    /\ UNCHANGED ticks

NextGame ==
    \/ \E event \in GameEvents(Cur) : Frame(event)
    \/ Tick

SpecGame == InitGame /\ [][NextGame]_vars

---------------------------------------------------------------------------
(* C38: the name-entry dialogue and the game it belongs to.                *)

---------------------------------------------------------------------------
(* The leaderboard specification: a Leaderboard alone, updated with any     *)
(* names and times.  The variable game holds the leaderboard; the board is *)
(* the one of an EASY game and is left alone.                              *)

\* Bounds: leaderboards of at most MaxItems items, times 0 .. MaxTime.
MaxItems == 2
MaxTime == 2

LbNames == {"ANN", "BOB"}
LbTimes == 0 .. MaxTime

\* The difficulties played in the leaderboard specification.
LbPlayed == {"EASY", "NORMAL", "CUSTOM"}

\* A list of <<name, time>> entries sorted by non-decreasing time.
Sorted(data) ==
    \A k \in 1 .. Len(data) - 1 : data[k][2] <= data[k + 1][2]

\* The sorted lists of at most n entries.
SortedLists(n) ==
    {data \in UNION {[1 .. k -> LbNames \X LbTimes] : k \in 0 .. n} :
        Sorted(data)}

\* Leaderboard(...) is constructed with data whose lists are sorted and
\* hold at most max_items entries (the data of a state file).
InitLeaderboard ==
    /\ \E max_items \in 1 .. MaxItems :
          \E data \in SortedLists(max_items) :
              game = [NewLeaderboard(max_items) EXCEPT !.data["EASY"] = data]
    /\ Is(NewBoard(10, 10, 10))
    /\ ticks = 0
    /\ last = "init"

\* The case of Leaderboard.update that a call takes.
update_branch(lb, difficulty, t) ==
    IF difficulty \notin DOMAIN lb.data THEN "update_unlisted"
    ELSE IF \E k \in 1 .. Len(lb.data[difficulty]) :
                lb.data[difficulty][k][2] = t
    THEN "update_tie"
    ELSE "update"

\* Leaderboard.update is called.
Update(difficulty, name, t) ==
    /\ game' = update(game, difficulty, name, t)
    /\ last' = update_branch(game, difficulty, t)
    /\ UNCHANGED <<n_rows, n_cols, n_mines, n_mines_left, is_mine, mine_count,
                   tile_status, losing_indices, start_time, _time,
                   tiles_to_open, game_status, delivered, raised, ticks>>

NextLeaderboard ==
    \E difficulty \in LbPlayed, name \in LbNames, t \in LbTimes :
        Update(difficulty, name, t)

SpecLeaderboard == InitLeaderboard /\ [][NextLeaderboard]_vars

---------------------------------------------------------------------------
(* C39: the order of the leaderboard.                                      *)

\* The list old with the entry <<name, t>> placed after every entry whose
\* time is at most t, cut to max_items entries.
PlacedAfterTies(old, name, t, max_items) ==
    LET k == Cardinality({j \in 1 .. Len(old) : old[j][2] <= t})
        placed == SubSeq(old, 1, k) \o <<<<name, t>>>>
                      \o SubSeq(old, k + 1, Len(old))
    IN  SubSeq(placed, 1, Min(Len(placed), max_items))

\* C39: every list of the leaderboard is sorted by non-decreasing time and
\* holds at most max_items entries, and an update keeps it so: for a
\* difficulty that has a list the new entry is placed after the entries
\* with the same or a smaller time and the other lists stay as they are,
\* for a difficulty without a list (CUSTOM) nothing changes.
C39_LeaderboardOrdering ==
    /\ \A d \in DOMAIN game.data :
          Sorted(game.data[d]) /\ Len(game.data[d]) <= game.max_items
    /\ \A d \in Difficulties, name \in LbNames, t \in LbTimes :
          LET lb == update(game, d, name, t)
          IN  IF d \in DOMAIN game.data
              THEN /\ lb.max_items = game.max_items
                   /\ \A e \in DOMAIN game.data \ {d} :
                         lb.data[e] = game.data[e]
                   /\ lb.data[d] = PlacedAfterTies(game.data[d], name, t,
                                                   game.max_items)
                   /\ Sorted(lb.data[d])
                   /\ Len(lb.data[d]) <= lb.max_items
              ELSE lb = game

\* An update added an entry whose time ties an entry of another name, and
\* the list is full.
C39_Witness ==
    /\ last = "update_tie"
    /\ \E d \in DOMAIN game.data :
          /\ Len(game.data[d]) = game.max_items
          /\ \E k \in 1 .. Len(game.data[d]) - 1 :
                /\ game.data[d][k][2] = game.data[d][k + 1][2]
                /\ game.data[d][k][1] # game.data[d][k + 1][1]

---------------------------------------------------------------------------
(* The parameter specification: the difficulty is changed and rows,        *)
(* columns and mines are entered, in any order.  Each action is the         *)
(* handler the widget calls, reset of the board included.                  *)

\* The strings entered in the inputs, as sequences of digits (the inputs
\* accept at most three): the empty string, 0, both sides of
\* MAX_BOARD_DIMENSION, and small values.
Entries == {<<>>, <<0>>, <<1>>, <<2>>, <<5, 0>>, <<5, 1>>, <<9, 9, 9>>}

InitParams == ConstructGame(Listed)

\* The action of a handler of the game that leaves the pair gb.
Handled(gb, label) ==
    /\ Load(gb.b)
    /\ game' = gb.g
    /\ last' = label
    /\ UNCHANGED ticks

\* An option of the difficulty selector is clicked.
DifficultyChange(difficulty) ==
    Handled(selector_on_mouse_up([g |-> game, b |-> Fresh(Cur)], LEFT_CLICK,
                                 difficulty, ticks),
            "on_difficulty_change")

\* A value is entered in the input HEIGHT, which is active for CUSTOM.
RowsEnter(value) ==
    /\ game.active_input
    /\ Handled(on_rows_enter([g |-> game, b |-> Fresh(Cur)], value, ticks),
               "on_rows_enter")

\* A value is entered in the input WIDTH.
ColsEnter(value) ==
    /\ game.active_input
    /\ Handled(on_cols_enter([g |-> game, b |-> Fresh(Cur)], value, ticks),
               "on_cols_enter")

\* A value is entered in the input MINES.
MinesEnter(value) ==
    /\ game.active_input
    /\ Handled(on_mines_enter([g |-> game, b |-> Fresh(Cur)], value, ticks),
               "on_mines_enter")

NextParams ==
    \/ \E difficulty \in Difficulties : DifficultyChange(difficulty)
    \/ \E value \in Entries : RowsEnter(value)
    \/ \E value \in Entries : ColsEnter(value)
    \/ \E value \in Entries : MinesEnter(value)

SpecParams == InitParams /\ [][NextParams]_vars

---------------------------------------------------------------------------
(* C40: the parameters the game hands to the board.                        *)

=============================================================================
